---- MODULE Spec2Model ----
(***************************************************************************)
(* Log4Net Analyzer (TTGeek2/timeline): the log parser of FileUpload.tsx,  *)
(* the level filter and selection state of App, the group aggregator of    *)
(* ErrorList and the 15-minute timeline of Timeline.tsx.                   *)
(*                                                                         *)
(* Strings are real strings: lines are split, trimmed and matched          *)
(* character by character as the JavaScript does it.  Instants are         *)
(* milliseconds counted from EpochShiftDays 00:00 UTC instead of           *)
(* 1970-01-01 (the model checker's integers are 32 bits wide); the shift   *)
(* is a whole number of quarter hours, so Math.floor(t / 15 min) buckets   *)
(* and every comparison are those of the program.                          *)
(***************************************************************************)
EXTENDS Integers, Sequences, FiniteSets, TLC

VARIABLES
    files,            \* FileUpload state: the selected File objects, in selection order
    localOffset,      \* environment: Date.prototype.getTimezoneOffset(), minutes
    upPc,             \* handleUpload: "idle", "reading" (inside for..of), "done"
    upIndex,          \* handleUpload: index of the next file of the for..of loop
    upLogData,        \* handleUpload: its local logData array
    logData,          \* App state: the repository delivered by onFileUpload
    selectedMessage,  \* App state: <<>> (null) or <<key>> of the selected group
    logType,          \* App state: the level filter, "ERR" or "WRN"
    fileStats,        \* FileUpload state: the Map of file name to FileStats
    selectRuns,       \* handleFileSelect calls suspended at await file.text()
    uploadRuns,       \* handleUpload calls suspended at await file.text()
    lastBatch,        \* history: the files of the most recent click on Upload
    modalOpen,        \* ErrorList state: whether the detail modal is open
    selectedErrorGroup,  \* ErrorList state: <<>> (null) or <<group>> shown in the modal
    currentErrorIndex \* ErrorList state: index (from 0) of the occurrence shown

vars == <<files, localOffset, upPc, upIndex, upLogData, logData, selectedMessage, logType,
          fileStats, selectRuns, uploadRuns, lastBatch,
          modalOpen, selectedErrorGroup, currentErrorIndex>>

AsyncVars == <<fileStats, selectRuns, uploadRuns, lastBatch>>

ModalVars == <<modalOpen, selectedErrorGroup, currentErrorIndex>>

-----------------------------------------------------------------------------
(* JavaScript string primitives *)

CharAt(s, i) == SubSeq(s, i, i)

Digits == {"0", "1", "2", "3", "4", "5", "6", "7", "8", "9"}

DigitVal(c) == CHOOSE d \in 0..9 : ToString(d) = c

\* White space removed by String.prototype.trim (of what a line can hold).
IsWhiteSpace(c) == c \in {" ", "\t", "\r", "\f", "\n"}

\* Characters the regular expression's "." does not match.
IsLineTerminator(c) == c \in {"\n", "\r"}

RECURSIVE TrimStart(_)
TrimStart(s) ==
    IF Len(s) > 0 /\ IsWhiteSpace(CharAt(s, 1))
    THEN TrimStart(SubSeq(s, 2, Len(s)))
    ELSE s

RECURSIVE TrimEnd(_)
TrimEnd(s) ==
    IF Len(s) > 0 /\ IsWhiteSpace(CharAt(s, Len(s)))
    THEN TrimEnd(SubSeq(s, 1, Len(s) - 1))
    ELSE s

Trim(s) == TrimEnd(TrimStart(s))

StartsWith(s, p) == Len(s) >= Len(p) /\ SubSeq(s, 1, Len(p)) = p

Includes(s, p) == \E i \in 1..(Len(s) - Len(p) + 1) : SubSeq(s, i, i + Len(p) - 1) = p

\* text.split('\n'): always at least one element.
NewlinesOf(text) == {i \in 1..Len(text) : CharAt(text, i) = "\n"}

\* The position of the j-th "\n" of text; 0 for j = 0, Len(text) + 1 past the last.
NewlineAt(text, j) ==
    IF j = 0 THEN 0
    ELSE IF j > Cardinality(NewlinesOf(text)) THEN Len(text) + 1
    ELSE CHOOSE p \in NewlinesOf(text) :
             Cardinality({q \in NewlinesOf(text) : q < p}) = j - 1

SplitLines(text) ==
    [j \in 1..(Cardinality(NewlinesOf(text)) + 1) |->
        SubSeq(text, NewlineAt(text, j - 1) + 1, NewlineAt(text, j) - 1)]

\* Number("08"), Number("+02"), Number("-05"): an optional sign and decimal digits.
RECURSIVE DigitsToNat(_)
DigitsToNat(s) ==
    IF Len(s) = 0 THEN 0
    ELSE 10 * DigitsToNat(SubSeq(s, 1, Len(s) - 1)) + DigitVal(CharAt(s, Len(s)))

ToNumber(s) ==
    IF StartsWith(s, "-") THEN 0 - DigitsToNat(SubSeq(s, 2, Len(s)))
    ELSE IF StartsWith(s, "+") THEN DigitsToNat(SubSeq(s, 2, Len(s)))
    ELSE DigitsToNat(s)

-----------------------------------------------------------------------------
(* Dates *)

MsPerMinute == 60000

\* Days from 1970-01-01 to the civil date y-m-d (proleptic Gregorian), as Date does.
DaysFromCivil(y, m, d) ==
    LET yy  == IF m <= 2 THEN y - 1 ELSE y
        era == yy \div 400
        yoe == yy - era * 400
        mp  == IF m > 2 THEN m - 3 ELSE m + 9
        doy == (153 * mp + 2) \div 5 + d - 1
        doe == yoe * 365 + yoe \div 4 - yoe \div 100 + doy
    IN  era * 146097 + doe - 719468

\* The day the model counts instants from.
EpochShiftDays == DaysFromCivil(2025, 4, 17)

\* The date-time literal "yyyy-MM-dd HH:mm:ss.SSS" read as a wall-clock time,
\* in milliseconds.
WallClockMs(ts) ==
    LET y  == DigitsToNat(SubSeq(ts, 1, 4))
        mo == DigitsToNat(SubSeq(ts, 6, 7))
        d  == DigitsToNat(SubSeq(ts, 9, 10))
        h  == DigitsToNat(SubSeq(ts, 12, 13))
        mi == DigitsToNat(SubSeq(ts, 15, 16))
        s  == DigitsToNat(SubSeq(ts, 18, 19))
        ms == DigitsToNat(SubSeq(ts, 21, 23))
    IN  (((DaysFromCivil(y, mo, d) - EpochShiftDays) * 24 + h) * 60 + mi) * MsPerMinute
        + s * 1000 + ms

\* The time value of an Invalid Date (NaN), which no date-time denotes.
InvalidDate == 0 - 2000000000

\* Whether the fields of the literal are those of a date and a time.  (A day
\* of 29 to 31 in a shorter month is read as the days that follow the month.)
ValidFields(ts) ==
    /\ DigitsToNat(SubSeq(ts, 6, 7)) \in 1..12
    /\ DigitsToNat(SubSeq(ts, 9, 10)) \in 1..31
    /\ DigitsToNat(SubSeq(ts, 12, 13)) \in 0..23
    /\ DigitsToNat(SubSeq(ts, 15, 16)) \in 0..59
    /\ DigitsToNat(SubSeq(ts, 18, 19)) \in 0..59

\* new Date(timestamp) of a literal without zone: the wall-clock time in the
\* local zone, whose getTimezoneOffset() is tzo (UTC minus local, minutes);
\* an Invalid Date when the fields denote no date or time.
NewDateLocal(ts, tzo) ==
    IF ValidFields(ts) THEN WallClockMs(ts) + tzo * MsPerMinute ELSE InvalidDate

\* date.setMinutes(date.getMinutes() + minutes): an Invalid Date stays one.
SetMinutes(date, minutes) ==
    IF date = InvalidDate THEN InvalidDate ELSE date + minutes * MsPerMinute

-----------------------------------------------------------------------------
(* FileUpload.tsx: parseLogLine, isStackTraceLine, normalizeLogLevel *)

\* \d{4}-\d{2}-\d{2} \d{2}:\d{2}:\d{2}\.\d{3}
TimestampShape(s) ==
    /\ Len(s) = 23
    /\ \A i \in {1, 2, 3, 4, 6, 7, 9, 10, 12, 13, 15, 16, 18, 19, 21, 22, 23} :
          CharAt(s, i) \in Digits
    /\ CharAt(s, 5) = "-" /\ CharAt(s, 8) = "-" /\ CharAt(s, 11) = " "
    /\ CharAt(s, 14) = ":" /\ CharAt(s, 17) = ":" /\ CharAt(s, 20) = "."

\* [+-]\d{2}:\d{2}
TimezoneShape(s) ==
    /\ Len(s) = 6
    /\ CharAt(s, 1) \in {"+", "-"}
    /\ \A i \in {2, 3, 5, 6} : CharAt(s, i) \in Digits
    /\ CharAt(s, 4) = ":"

\* Where the lazy \[(.*?)\] closes: the positions k of "] " after the "[" at 32.
LevelEnds(line) ==
    {k \in 33..(Len(line) - 1) : CharAt(line, k) = "]" /\ CharAt(line, k + 1) = " "}

\* line.match(/^(ts) (tz) \[(.*?)\] (.*)$/) !== null
HeaderMatch(line) ==
    /\ Len(line) >= 34
    /\ TimestampShape(SubSeq(line, 1, 23))
    /\ CharAt(line, 24) = " "
    /\ TimezoneShape(SubSeq(line, 25, 30))
    /\ CharAt(line, 31) = " "
    /\ CharAt(line, 32) = "["
    /\ LevelEnds(line) # {}
    /\ \A i \in 33..Len(line) : ~IsLineTerminator(CharAt(line, i))

\* The offset the code computes from capture group 2.
OffsetMinutes(timezone) ==
    LET hours   == ToNumber(SubSeq(timezone, 1, 3))
        minutes == ToNumber(SubSeq(timezone, 5, 6))
    IN  (hours * 60 + minutes) * (IF StartsWith(timezone, "+") THEN 1 ELSE -1)

\* parseLogLine: <<>> for null, else <<[timestamp, level, message]>>.
parseLogLine(line, tzo) ==
    IF HeaderMatch(line)
    THEN LET timestamp == SubSeq(line, 1, 23)
             timezone  == SubSeq(line, 25, 30)
             k         == CHOOSE e \in LevelEnds(line) : \A f \in LevelEnds(line) : e <= f
             date      == NewDateLocal(timestamp, tzo)
         IN  <<[timestamp |-> SetMinutes(date, 0 - tzo - OffsetMinutes(timezone)),
                level     |-> SubSeq(line, 33, k - 1),
                message   |-> SubSeq(line, k + 2, Len(line))]>>
    ELSE <<>>

\* Mutant: only the two "at" patterns are recognised.
isStackTraceLine_OnlyAt(line) ==
    \/ StartsWith(Trim(line), "at ")
    \/ Includes(line, "   at ")

isStackTraceLine(line) ==
    \/ StartsWith(Trim(line), "at ")
    \/ Includes(line, "   at ")
    \/ Includes(line, "--- End of ")
    \/ Includes(line, " ---> ")
    \/ StartsWith(TrimStart(line), "---")

\* Mutant: every bracketed token is a level.
normalizeLogLevel_AnyToken(level) == <<level>>

\* normalizeLogLevel: <<>> for null.
normalizeLogLevel(level) ==
    IF level = "ERR" THEN <<"ERR">>
    ELSE IF level = "WRN" THEN <<"WRN">>
    ELSE <<>>

-----------------------------------------------------------------------------
(* FileUpload.tsx: handleUpload *)

\* Mutant: the line is appended without the newline.
AppendLine_NoNewline(message, trimmedLine) == message \o trimmedLine

\* currentEntry.message += '\n' + trimmedLine
AppendLine(message, trimmedLine) == message \o "\n" \o trimmedLine

\* Mutant: with no entry open, a stack trace line opens one.
ProcessLine_OpensOnTrace(st, lines, index, fileName, tzo) ==
    LET trimmedLine == Trim(lines[index])
        parsedLine  == parseLogLine(trimmedLine, tzo)
        appended    == [st EXCEPT !.currentEntry[1].message = AppendLine(@, trimmedLine)]
    IN  IF trimmedLine = "" THEN st
        ELSE IF parsedLine # <<>>
        THEN LET normalizedLevel == normalizeLogLevel(parsedLine[1].level)
             IN  IF normalizedLevel # <<>>
                 THEN [currentEntry |-> <<[timestamp |-> parsedLine[1].timestamp,
                                           message   |-> parsedLine[1].message,
                                           file      |-> fileName,
                                           level     |-> normalizedLevel[1]]>>,
                       isCollectingStackTrace |-> TRUE,
                       logData |-> IF st.currentEntry # <<>>
                                   THEN Append(st.logData, st.currentEntry[1])
                                   ELSE st.logData]
                 ELSE [st EXCEPT !.isCollectingStackTrace = FALSE]
        ELSE IF st.currentEntry # <<>> /\ st.isCollectingStackTrace
        THEN IF isStackTraceLine(trimmedLine) THEN appended
             ELSE LET nextLine == IF index + 1 <= Len(lines)
                                  THEN Trim(lines[index + 1]) ELSE ""
                  IN  IF nextLine # "" /\ isStackTraceLine(nextLine)
                      THEN appended
                      ELSE [st EXCEPT !.isCollectingStackTrace = FALSE]
        ELSE IF st.currentEntry = <<>> /\ isStackTraceLine(trimmedLine)
        THEN [st EXCEPT !.currentEntry = <<[timestamp |-> 0, message |-> trimmedLine,
                                            file |-> fileName, level |-> "ERR"]>>,
                        !.isCollectingStackTrace = TRUE]
        ELSE st

\* Mutant: a header with a token that is no level leaves the collection on.
ProcessLine_UnrecognizedKeepsOpen(st, lines, index, fileName, tzo) ==
    LET trimmedLine == Trim(lines[index])
        parsedLine  == parseLogLine(trimmedLine, tzo)
        appended    == [st EXCEPT !.currentEntry[1].message = AppendLine(@, trimmedLine)]
    IN  IF trimmedLine = "" THEN st
        ELSE IF parsedLine # <<>>
        THEN LET normalizedLevel == normalizeLogLevel(parsedLine[1].level)
             IN  IF normalizedLevel # <<>>
                 THEN [currentEntry |-> <<[timestamp |-> parsedLine[1].timestamp,
                                           message   |-> parsedLine[1].message,
                                           file      |-> fileName,
                                           level     |-> normalizedLevel[1]]>>,
                       isCollectingStackTrace |-> TRUE,
                       logData |-> IF st.currentEntry # <<>>
                                   THEN Append(st.logData, st.currentEntry[1])
                                   ELSE st.logData]
                 ELSE st
        ELSE IF st.currentEntry # <<>> /\ st.isCollectingStackTrace
        THEN IF isStackTraceLine(trimmedLine) THEN appended
             ELSE LET nextLine == IF index + 1 <= Len(lines)
                                  THEN Trim(lines[index + 1]) ELSE ""
                  IN  IF nextLine # "" /\ isStackTraceLine(nextLine)
                      THEN appended
                      ELSE [st EXCEPT !.isCollectingStackTrace = FALSE]
        ELSE st

\* Mutant: the held entry is pushed only while lines are collected for it.
ProcessLine_PushWhileCollecting(st, lines, index, fileName, tzo) ==
    LET trimmedLine == Trim(lines[index])
        parsedLine  == parseLogLine(trimmedLine, tzo)
        appended    == [st EXCEPT !.currentEntry[1].message = AppendLine(@, trimmedLine)]
    IN  IF trimmedLine = "" THEN st
        ELSE IF parsedLine # <<>>
        THEN LET normalizedLevel == normalizeLogLevel(parsedLine[1].level)
             IN  IF normalizedLevel # <<>>
                 THEN [currentEntry |-> <<[timestamp |-> parsedLine[1].timestamp,
                                           message   |-> parsedLine[1].message,
                                           file      |-> fileName,
                                           level     |-> normalizedLevel[1]]>>,
                       isCollectingStackTrace |-> TRUE,
                       logData |-> IF st.currentEntry # <<>> /\ st.isCollectingStackTrace
                                   THEN Append(st.logData, st.currentEntry[1])
                                   ELSE st.logData]
                 ELSE [st EXCEPT !.isCollectingStackTrace = FALSE]
        ELSE IF st.currentEntry # <<>> /\ st.isCollectingStackTrace
        THEN IF isStackTraceLine(trimmedLine) THEN appended
             ELSE LET nextLine == IF index + 1 <= Len(lines)
                                  THEN Trim(lines[index + 1]) ELSE ""
                  IN  IF nextLine # "" /\ isStackTraceLine(nextLine)
                      THEN appended
                      ELSE [st EXCEPT !.isCollectingStackTrace = FALSE]
        ELSE st

\* Mutant: lines are collected for the held entry whether it was closed or not.
ProcessLine_CollectsAfterClose(st, lines, index, fileName, tzo) ==
    LET trimmedLine == Trim(lines[index])
        parsedLine  == parseLogLine(trimmedLine, tzo)
        appended    == [st EXCEPT !.currentEntry[1].message = AppendLine(@, trimmedLine)]
    IN  IF trimmedLine = "" THEN st
        ELSE IF parsedLine # <<>>
        THEN LET normalizedLevel == normalizeLogLevel(parsedLine[1].level)
             IN  IF normalizedLevel # <<>>
                 THEN [currentEntry |-> <<[timestamp |-> parsedLine[1].timestamp,
                                           message   |-> parsedLine[1].message,
                                           file      |-> fileName,
                                           level     |-> normalizedLevel[1]]>>,
                       isCollectingStackTrace |-> TRUE,
                       logData |-> IF st.currentEntry # <<>>
                                   THEN Append(st.logData, st.currentEntry[1])
                                   ELSE st.logData]
                 ELSE [st EXCEPT !.isCollectingStackTrace = FALSE]
        ELSE IF st.currentEntry # <<>>
        THEN IF isStackTraceLine(trimmedLine) THEN appended
             ELSE LET nextLine == IF index + 1 <= Len(lines)
                                  THEN Trim(lines[index + 1]) ELSE ""
                  IN  IF nextLine # "" /\ isStackTraceLine(nextLine)
                      THEN appended
                      ELSE [st EXCEPT !.isCollectingStackTrace = FALSE]
        ELSE st

\* The callback of lines.forEach: st holds the closure's currentEntry (<<>> for
\* null), isCollectingStackTrace and logData; index counts from 1.
ProcessLine(st, lines, index, fileName, tzo) ==
    LET trimmedLine == Trim(lines[index])
        parsedLine  == parseLogLine(trimmedLine, tzo)
        appended    == [st EXCEPT !.currentEntry[1].message = AppendLine(@, trimmedLine)]
    IN  IF trimmedLine = "" THEN st
        ELSE IF parsedLine # <<>>
        THEN LET normalizedLevel == normalizeLogLevel(parsedLine[1].level)
             IN  IF normalizedLevel # <<>>
                 THEN [currentEntry |-> <<[timestamp |-> parsedLine[1].timestamp,
                                           message   |-> parsedLine[1].message,
                                           file      |-> fileName,
                                           level     |-> normalizedLevel[1]]>>,
                       isCollectingStackTrace |-> TRUE,
                       logData |-> IF st.currentEntry # <<>>
                                   THEN Append(st.logData, st.currentEntry[1])
                                   ELSE st.logData]
                 ELSE [st EXCEPT !.isCollectingStackTrace = FALSE]
        ELSE IF st.currentEntry # <<>> /\ st.isCollectingStackTrace
        THEN IF isStackTraceLine(trimmedLine) THEN appended
             ELSE LET nextLine == IF index + 1 <= Len(lines)
                                  THEN Trim(lines[index + 1]) ELSE ""
                  IN  IF nextLine # "" /\ isStackTraceLine(nextLine)
                      THEN appended
                      ELSE [st EXCEPT !.isCollectingStackTrace = FALSE]
        ELSE st

RECURSIVE ForEachLine(_, _, _, _, _)
ForEachLine(st, lines, index, fileName, tzo) ==
    IF index > Len(lines) THEN st
    ELSE ForEachLine(ProcessLine(st, lines, index, fileName, tzo),
                     lines, index + 1, fileName, tzo)

\* Mutant: the entries of a file are put in front of those of the files before.
ParseFile_Unshift(acc, file, tzo) ==
    IF ~file.readable THEN acc
    ELSE LET lines == SplitLines(file.text)
             st    == ForEachLine([currentEntry |-> <<>>,
                                   isCollectingStackTrace |-> FALSE,
                                   logData |-> <<>>],
                                  lines, 1, file.name, tzo)
         IN  (IF st.currentEntry # <<>>
              THEN Append(st.logData, st.currentEntry[1])
              ELSE st.logData) \o acc

\* Mutant: a file that cannot be read discards what was parsed before it.
ParseFile_AbortOnFailure(acc, file, tzo) ==
    IF ~file.readable THEN <<>>
    ELSE LET lines == SplitLines(file.text)
             st    == ForEachLine([currentEntry |-> <<>>,
                                   isCollectingStackTrace |-> FALSE,
                                   logData |-> acc],
                                  lines, 1, file.name, tzo)
         IN  IF st.currentEntry # <<>>
             THEN Append(st.logData, st.currentEntry[1])
             ELSE st.logData

\* Mutant: the entry still held at the end of the file is not pushed.
ParseFile_NoLastPush(acc, file, tzo) ==
    IF ~file.readable THEN acc
    ELSE ForEachLine([currentEntry |-> <<>>,
                      isCollectingStackTrace |-> FALSE,
                      logData |-> acc],
                     SplitLines(file.text), 1, file.name, tzo).logData

\* Mutant: currentEntry and isCollectingStackTrace are declared outside the
\* for..of loop, so the last entry of the file before is still open.
ParseFile_CarriesEntry(acc, file, tzo) ==
    IF ~file.readable THEN acc
    ELSE LET lines == SplitLines(file.text)
             st    == ForEachLine(IF acc = <<>>
                                  THEN [currentEntry |-> <<>>,
                                        isCollectingStackTrace |-> FALSE,
                                        logData |-> acc]
                                  ELSE [currentEntry |-> <<acc[Len(acc)]>>,
                                        isCollectingStackTrace |-> TRUE,
                                        logData |-> SubSeq(acc, 1, Len(acc) - 1)],
                                  lines, 1, file.name, tzo)
         IN  IF st.currentEntry # <<>>
             THEN Append(st.logData, st.currentEntry[1])
             ELSE st.logData

\* The body of the for..of loop for one file: logData after the file.
ParseFile(acc, file, tzo) ==
    IF ~file.readable THEN acc          \* file.text() rejects: caught and logged
    ELSE LET lines == SplitLines(file.text)
             st    == ForEachLine([currentEntry |-> <<>>,
                                   isCollectingStackTrace |-> FALSE,
                                   logData |-> acc],
                                  lines, 1, file.name, tzo)
         IN  IF st.currentEntry # <<>>
             THEN Append(st.logData, st.currentEntry[1])
             ELSE st.logData

-----------------------------------------------------------------------------
(* FileUpload.tsx: handleFileSelect, handleRemoveFile and the fileStats Map *)

\* new Map(): no key.
EmptyMap == <<>>

\* map.set(key, value)
MapSet(map, key, value) ==
    [k \in DOMAIN map \cup {key} |-> IF k = key THEN value ELSE map[k]]

\* map.delete(key)
MapDelete(map, key) == [k \in DOMAIN map \ {key} |-> map[k]]

\* The tallies of one file: the try block of handleFileSelect, and its catch.
FileSummary(file) ==
    IF ~file.readable THEN [errorCount |-> 0, warningCount |-> 0]
    ELSE LET lines   == SplitLines(file.text)
             trimmed == [i \in 1..Len(lines) |-> Trim(lines[i])]
         IN  [errorCount   |-> Cardinality({i \in 1..Len(lines) :
                                               Includes(trimmed[i], "[ERR]")}),
              warningCount |-> Cardinality({i \in 1..Len(lines) :
                                               /\ ~Includes(trimmed[i], "[ERR]")
                                               /\ Includes(trimmed[i], "[WRN]")})]

\* One turn of for (const file of newFiles): newStats after the file.
SelectFile(newStats, file) == MapSet(newStats, file.name, FileSummary(file))

\* The whole loop, from file number index on.
RECURSIVE SelectLoop(_, _, _)
SelectLoop(newStats, newFiles, index) ==
    IF index > Len(newFiles) THEN newStats
    ELSE SelectLoop(SelectFile(newStats, newFiles[index]), newFiles, index + 1)

\* array.filter((_, i) => i !== index), index counted from 1.
RemoveAt(array, index) ==
    SubSeq(array, 1, index - 1) \o SubSeq(array, index + 1, Len(array))

-----------------------------------------------------------------------------
(* App (unnamed/part_002): handleFileUpload *)

\* Mutant: the selection is kept, as in the App without the level toggle.
handleFileUpload_KeepsSelection(data) ==
    /\ logData' = data
    /\ UNCHANGED selectedMessage

handleFileUpload(data) ==
    /\ logData' = data
    /\ selectedMessage' = <<>>

\* Mutant: a new level leaves the selection as it is.
handleLogTypeChange_KeepsSelection(newLogType) ==
    IF newLogType # <<>>
    THEN logType' = newLogType[1] /\ UNCHANGED selectedMessage
    ELSE UNCHANGED <<logType, selectedMessage>>

\* handleLogTypeChange(_, newLogType); <<>> is the null of a click on the
\* button that is already selected.
handleLogTypeChange(newLogType) ==
    IF newLogType # <<>>
    THEN logType' = newLogType[1] /\ selectedMessage' = <<>>
    ELSE UNCHANGED <<logType, selectedMessage>>

-----------------------------------------------------------------------------
(* App (unnamed/part_002): the level filter *)

\* Mutant: the entries of the level, last first.
filteredLogData_LastFirst(data, type) ==
    LET kept == SelectSeq(data, LAMBDA entry : entry.level = type)
    IN  [k \in 1..Len(kept) |-> kept[Len(kept) + 1 - k]]

\* filteredLogData = logData.filter(entry => entry.level === logType)
filteredLogData(data, type) == SelectSeq(data, LAMBDA entry : entry.level = type)

\* JavaScript truthiness of `string | null`: neither null nor the empty string.
Truthy(selectedError) == selectedError # <<>> /\ selectedError[1] # ""

-----------------------------------------------------------------------------
(* ErrorList (unnamed/part_004, and the earlier one of src/App.tsx):        *)
(* messageGroups                                                            *)

\* The indices at which a message is seen for the first time: the keys of the
\* Map, which iterates in insertion order.
FirstSeen(data) ==
    {i \in 1..Len(data) : \A j \in 1..(i - 1) : data[j].message # data[i].message}

\* Array.from(iterable): the array of the elements, in iteration order.
ArrayFrom(elements) == SubSeq(elements, 1, Len(elements))

\* The first line of a message: message.split('\n')[0].
FirstLine(message) == SplitLines(message)[1]

\* Mutant: the key is the first line of the message.
GroupEntries_ByFirstLine(data) ==
    LET first == {i \in 1..Len(data) :
                     \A j \in 1..(i - 1) : FirstLine(data[j].message) # FirstLine(data[i].message)}
        keys  == SelectSeq([i \in 1..Len(data) |-> i], LAMBDA i : i \in first)
    IN  ArrayFrom([k \in 1..Len(keys) |->
            LET message == FirstLine(data[keys[k]].message)
            IN  [message     |-> message,
                 count       |-> Cardinality({i \in 1..Len(data) :
                                                 FirstLine(data[i].message) = message}),
                 occurrences |-> SelectSeq(data, LAMBDA log : FirstLine(log.message) = message)]])

\* The Map after the loop, as Array.from(groups.entries()).map(...) lists it.
GroupEntries(data) ==
    LET first == FirstSeen(data)
        keys  == SelectSeq([i \in 1..Len(data) |-> i], LAMBDA i : i \in first)
    IN  ArrayFrom([k \in 1..Len(keys) |->
            LET message == data[keys[k]].message
            IN  [message     |-> message,
                 count       |-> Cardinality({i \in 1..Len(data) : data[i].message = message}),
                 occurrences |-> SelectSeq(data, LAMBDA log : log.message = message)]])

\* The comparator (a, b) => b.count - a.count.
CompareCount(a, b) == b.count - a.count

\* Mutant: an unstable sort, which reverses groups of equal count.
SortByCount_TiesReversed(gs) ==
    LET n    == Len(gs)
        rank == ArrayFrom([i \in 1..n |->
                    1 + Cardinality({j \in 1..n :
                            \/ CompareCount(gs[j], gs[i]) < 0
                            \/ CompareCount(gs[j], gs[i]) = 0 /\ j > i})])
    IN  ArrayFrom([p \in 1..n |-> gs[CHOOSE i \in 1..n : rank[i] = p]])

\* Array.prototype.sort with comparator cmp: the stable sort (ES2019).  The
\* element at index i moves to the position after every element that compares
\* before it and every equal element that preceded it.
SortByCount(gs) ==
    LET n    == Len(gs)
        rank == ArrayFrom([i \in 1..n |->
                    1 + Cardinality({j \in 1..n :
                            \/ CompareCount(gs[j], gs[i]) < 0
                            \/ CompareCount(gs[j], gs[i]) = 0 /\ j < i})])
    IN  ArrayFrom([p \in 1..n |-> gs[CHOOSE i \in 1..n : rank[i] = p]])

\* array.slice(0, n)
SliceTo(xs, n) == SubSeq(xs, 1, IF Len(xs) < n THEN Len(xs) ELSE n)

TopN == 100
TopNEarlier == 15

\* Array.from(groups.entries()).map(...).sort(...): the groups before .slice
SortedGroups(data) == SortByCount(GroupEntries(data))

\* Mutant: the first TopN groups in insertion order, not sorted.
messageGroups_Unsorted(data) == SliceTo(GroupEntries(data), TopN)

\* messageGroups of the current ErrorList.
messageGroups(data) == SliceTo(SortedGroups(data), TopN)

\* messageGroups of the earlier ErrorList.
messageGroupsEarlier(data) == SliceTo(SortedGroups(data), TopNEarlier)

\* A click that selects the group whatever was selected before.
handleGroupClick_NoToggle(selectedError, message) == <<message>>

\* handleGroupClick: the selection after a click on the group with this key.
handleGroupClick(selectedError, message) ==
    IF selectedError = <<message>> THEN <<>> ELSE <<message>>

\* log.timestamp.getTime().  Instants are counted from the start of a UTC day,
\* a whole number of quarter hours after the epoch, so flooring to a quarter
\* hour gives the same buckets as flooring the epoch milliseconds.
getTime(date) == date

\* Mutant: buckets of an hour.
getIntervals_Hourly(logs) ==
    {ToString((getTime(logs[i].timestamp) \div (60 * 60 * 1000)) * (60 * 60 * 1000)) :
        i \in 1..Len(logs)}

\* getIntervals of hasTemporalOverlap: the Set of interval.toString().
getIntervals(logs) ==
    {ToString((getTime(logs[i].timestamp) \div (15 * 60 * 1000)) * (15 * 60 * 1000)) :
        i \in 1..Len(logs)}

\* Mutant: every interval of group1 must be one of group2.
hasTemporalOverlap_Every(group1, group2) ==
    \A interval \in getIntervals(group1) : interval \in getIntervals(group2)

\* hasTemporalOverlap of the ErrorList.
hasTemporalOverlap(group1, group2) ==
    LET intervals1 == getIntervals(group1)
        intervals2 == getIntervals(group2)
    IN  \E interval \in intervals1 : interval \in intervals2

\* selectedGroupData: <<>> (null, or undefined when find has no match) or
\* <<group>>.
selectedGroupData(groups, selectedError) ==
    IF ~Truthy(selectedError) THEN <<>>
    ELSE LET found == {g \in 1..Len(groups) : groups[g].message = selectedError[1]}
         IN  IF found = {} THEN <<>>
             ELSE <<groups[CHOOSE g \in found : \A h \in found : g <= h]>>

\* Mutant: the list item of the selected group is compared as well.
OverlapChecked_WithItself(groups, selectedError, group) ==
    /\ Truthy(selectedError)
    /\ selectedGroupData(groups, selectedError) # <<>>

\* The operands of && before the call of hasTemporalOverlap: the call is
\* evaluated when all of them are truthy.
OverlapChecked(groups, selectedError, group) ==
    /\ Truthy(selectedError)
    /\ selectedGroupData(groups, selectedError) # <<>>
    /\ group.message # selectedError[1]

\* hasOverlap of a list item: whether the pulsing timeline icon is shown.
hasOverlap(groups, selectedError, group) ==
    /\ OverlapChecked(groups, selectedError, group)
    /\ hasTemporalOverlap(group.occurrences,
                          selectedGroupData(groups, selectedError)[1].occurrences)

-----------------------------------------------------------------------------
(* ErrorList (unnamed/part_004): the detail modal *)

\* [...occurrences].sort((a, b) => b.timestamp.getTime() - a.timestamp.getTime()):
\* the stable sort, most recent first.
SortByTimestampDesc(logs) ==
    LET n    == Len(logs)
        rank == ArrayFrom([i \in 1..n |->
                    1 + Cardinality({j \in 1..n :
                            \/ getTime(logs[j].timestamp) > getTime(logs[i].timestamp)
                            \/ getTime(logs[j].timestamp) = getTime(logs[i].timestamp) /\ j < i})])
    IN  ArrayFrom([p \in 1..n |-> logs[CHOOSE i \in 1..n : rank[i] = p]])

handleShowDetails(group) ==
    /\ selectedErrorGroup' = <<[message     |-> group.message,
                                occurrences |-> SortByTimestampDesc(group.occurrences)]>>
    /\ currentErrorIndex' = 0
    /\ modalOpen' = TRUE

\* Mutant: the new index is stored without the range test.
handleNavigate_NoRangeTest(direction) ==
    /\ currentErrorIndex' = IF direction = "next" THEN currentErrorIndex + 1
                                                  ELSE currentErrorIndex - 1
    /\ UNCHANGED <<modalOpen, selectedErrorGroup>>

handleNavigate(direction) ==
    IF selectedErrorGroup = <<>> THEN UNCHANGED ModalVars
    ELSE LET newIndex == IF direction = "next" THEN currentErrorIndex + 1
                                                ELSE currentErrorIndex - 1
         IN  IF newIndex >= 0 /\ newIndex < Len(selectedErrorGroup[1].occurrences)
             THEN currentErrorIndex' = newIndex /\ UNCHANGED <<modalOpen, selectedErrorGroup>>
             ELSE UNCHANGED ModalVars

\* The onClose of the ErrorModal.
onClose ==
    /\ modalOpen' = FALSE
    /\ selectedErrorGroup' = <<>>
    /\ currentErrorIndex' = 0

-----------------------------------------------------------------------------
(* Timeline.tsx: startDate/endDate and chartData *)

IntervalMinutes == 15
PaddingMinutes == 30

\* date-fns addMinutes / subMinutes
addMinutes(date, amount) == date + amount * MsPerMinute
subMinutes(date, amount) == addMinutes(date, 0 - amount)

\* date-fns min / max of a non-empty array of valid dates
MinDate(dates) == CHOOSE d \in dates : \A e \in dates : d <= e
MaxDate(dates) == CHOOSE d \in dates : \A e \in dates : e <= d

\* Mutant: both ends excluded.
isWithinInterval_Exclusive(date, start, end) == start < date /\ date < end

\* date-fns isWithinInterval: both ends included.
isWithinInterval(date, start, end) == start <= date /\ date <= end

\* filteredData of chartData
SelectedData(data, selectedError) ==
    IF Truthy(selectedError)
    THEN SelectSeq(data, LAMBDA log : log.message = selectedError[1])
    ELSE data

\* Mutant: the range is taken over the entries of the selected group.
DateRange_OfSelection(data, selectedError) ==
    LET dates == {SelectedData(data, selectedError)[i].timestamp :
                     i \in 1..Len(SelectedData(data, selectedError))}
    IN  IF dates = {} THEN [startDate |-> 0, endDate |-> 0]
        ELSE [startDate |-> subMinutes(MinDate(dates), PaddingMinutes),
              endDate   |-> addMinutes(MaxDate(dates), PaddingMinutes)]

\* The useMemo of startDate/endDate; it reads logData only.  With no entries
\* both are `new Date()`, which chartData never reads: 0 stands for it.
DateRange(data, selectedError) ==
    IF Len(data) = 0 THEN [startDate |-> 0, endDate |-> 0]
    ELSE LET dates == {data[i].timestamp : i \in 1..Len(data)}
         IN  [startDate |-> subMinutes(MinDate(dates), PaddingMinutes),
              endDate   |-> addMinutes(MaxDate(dates), PaddingMinutes)]

\* The loop with `<` for `<=`: no interval starts at the end of the range.
IntervalStarts_StopBeforeEnd(range) ==
    [k \in 1..((range.endDate - range.startDate + IntervalMinutes * MsPerMinute - 1)
                  \div (IntervalMinutes * MsPerMinute)) |->
        addMinutes(range.startDate, (k - 1) * IntervalMinutes)]

\* The timestamps of the intervals the while loop pushes.
IntervalStarts(range) ==
    [k \in 1..((range.endDate - range.startDate) \div (IntervalMinutes * MsPerMinute) + 1) |->
        addMinutes(range.startDate, (k - 1) * IntervalMinutes)]

\* intervals.find(i => isWithinInterval(log.timestamp, ...)): the index of the
\* first interval the entry is within, 0 when there is none.
FindInterval(starts, log) ==
    LET within == {k \in 1..Len(starts) :
                      isWithinInterval(log.timestamp, starts[k],
                                       addMinutes(starts[k], IntervalMinutes))}
    IN  IF within = {} THEN 0 ELSE CHOOSE k \in within : \A m \in within : k <= m

\* The intervals of the range with what the forEach counted into them.
CountIntoIntervals(data, selectedError) ==
    LET filteredData == SelectedData(data, selectedError)
        starts       == ArrayFrom(IntervalStarts(DateRange(data, selectedError)))
    IN  ArrayFrom([k \in 1..Len(starts) |->
           LET entries == SelectSeq(filteredData,
                                    LAMBDA log : FindInterval(starts, log) = k)
               errors  == Len(SelectSeq(entries, LAMBDA log : log.level = "ERR"))
           IN  [timestamp    |-> starts[k],
                errorCount   |-> errors,
                warningCount |-> Len(entries) - errors,
                totalCount   |-> Len(entries),
                entries      |-> entries]])

\* chartData without its `if (!logData.length) return []`.
chartData_NoEmptyGuard(data, selectedError) == CountIntoIntervals(data, selectedError)

\* chartData: nothing without entries, else the counted intervals.
chartData(data, selectedError) ==
    IF Len(data) = 0 THEN <<>> ELSE CountIntoIntervals(data, selectedError)

\* The point the scatter plot draws for an entry.
ScatterPoint(entry) ==
    [timestamp    |-> entry.timestamp,
     errorCount   |-> IF entry.level = "ERR" THEN 1 ELSE 0,
     warningCount |-> IF entry.level = "WRN" THEN 1 ELSE 0,
     totalCount   |-> 1,
     file         |-> entry.file,
     level        |-> entry.level]

\* chart.flatMap(interval => interval.entries.map(point)).
RECURSIVE FlatMapEntries(_)
FlatMapEntries(chart) ==
    IF chart = <<>> THEN <<>>
    ELSE LET entries == Head(chart).entries
         IN  [i \in 1..Len(entries) |-> ScatterPoint(entries[i])]
             \o FlatMapEntries(Tail(chart))

\* A scatter plot of one point for each interval that counted an entry.
scatterData_PointPerInterval(chart, selectedError) ==
    IF ~Truthy(selectedError) THEN <<>>
    ELSE FlatMapEntries([k \in 1..Len(chart) |->
                           [entries |-> IF chart[k].entries = <<>> THEN <<>>
                                        ELSE <<chart[k].entries[1]>>]])

\* scatterData: the points of the selected group's entries, none when no group
\* is selected.
scatterData(chart, selectedError) ==
    IF ~Truthy(selectedError) THEN <<>> ELSE FlatMapEntries(ArrayFrom(chart))

-----------------------------------------------------------------------------
(* handleUpload as steps: the click, one file per await, the delivery *)

HandleUploadStart ==
    /\ upPc \in {"idle", "done"}
    /\ upPc' = "reading"
    /\ upIndex' = 1
    /\ upLogData' = <<>>
    /\ UNCHANGED <<ModalVars, files, localOffset, logData, selectedMessage, logType, AsyncVars>>

HandleUploadFile ==
    /\ upPc = "reading"
    /\ upIndex <= Len(files)
    /\ upLogData' = ParseFile(upLogData, files[upIndex], localOffset)
    /\ upIndex' = upIndex + 1
    /\ UNCHANGED <<ModalVars, files, localOffset, upPc, logData, selectedMessage, logType, AsyncVars>>

HandleUploadDone ==
    /\ upPc = "reading"
    /\ upIndex > Len(files)
    /\ handleFileUpload(upLogData)
    /\ upPc' = "done"
    /\ UNCHANGED <<ModalVars, files, localOffset, upIndex, upLogData, logType, AsyncVars>>

NextUpload == HandleUploadStart \/ HandleUploadFile \/ HandleUploadDone

-----------------------------------------------------------------------------
(* Input lines.  Each is written as its parts, so that what a property      *)
(* expects of it does not come from the parser: lead and trail are white    *)
(* space, and a header's body is its message remainder.                     *)

Header(lead, ts, tz, token, rest, trail) ==
    [kind |-> "header", lead |-> lead, ts |-> ts, tz |-> tz, token |-> token,
     body |-> rest, trail |-> trail]

Other(kind, lead, body, trail) ==
    [kind |-> kind, lead |-> lead, ts |-> "", tz |-> "", token |-> "",
     body |-> body, trail |-> trail]

Raw(l) ==
    l.lead
    \o (IF l.kind = "header"
        THEN l.ts \o " " \o l.tz \o " [" \o l.token \o "] "
        ELSE "")
    \o l.body \o l.trail

RECURSIVE JoinLines(_)
JoinLines(ls) ==
    IF Len(ls) = 0 THEN ""
    ELSE IF Len(ls) = 1 THEN Raw(ls[1])
    ELSE Raw(ls[1]) \o "\n" \o JoinLines(Tail(ls))

\* Lines of every kind the parser tells apart.
BaseLines ==
    << Header("", "2025-04-17 08:21:24.838", "+02:00", "ERR", "Boom", ""),
       Other("cont", "   ", "at Foo.Bar()", ""),
       Header("", "2025-04-17 08:25:00.000", "+02:00", "WRN", "Careful", ""),
       Header("", "2025-04-17 08:30:00.000", "+02:00", "INF", "Started", "\r"),
       Other("plain", "", "garbage not a log line", ""),
       Other("blank", "  ", "", "\r"),
       Other("cont", "", "--- End of inner exception stack trace ---", "\r"),
       Other("cont", "\t", "System.Exception: outer ---> System.Exception: inner", ""),
       Header(" ", "2025-04-17 08:21:24.838", "+02:00", "ERR", "Boom] x", "\r") >>

\* Date-time literals and zone offsets, each with what it denotes: the wall
\* clock in milliseconds from EpochShiftDays 00:00, the offset in minutes east
\* of UTC.  Literal i under offset i is the instant 06:21:24.838 UTC.
ZoneLiterals ==
    << [text |-> "2025-04-17 08:21:24.838", at |-> (8 * 60 + 21) * 60000 + 24838],
       [text |-> "2025-04-17 01:21:24.838", at |-> (1 * 60 + 21) * 60000 + 24838],
       [text |-> "2025-04-17 11:51:24.838", at |-> (11 * 60 + 51) * 60000 + 24838],
       [text |-> "2025-04-17 02:51:24.838", at |-> (2 * 60 + 51) * 60000 + 24838],
       [text |-> "2025-04-17 06:21:24.838", at |-> (6 * 60 + 21) * 60000 + 24838],
       [text |-> "2025-04-17 05:51:24.838", at |-> (5 * 60 + 51) * 60000 + 24838] >>

ZoneOffsets ==
    << [text |-> "+02:00", east |-> 120],
       [text |-> "-05:00", east |-> -300],
       [text |-> "+05:30", east |-> 330],
       [text |-> "-03:30", east |-> -210],
       [text |-> "+00:00", east |-> 0],
       [text |-> "-00:30", east |-> -30] >>

ZoneLit(n) == ZoneLiterals[((n - 1) \div Len(ZoneOffsets)) + 1]
ZoneOff(n) == ZoneOffsets[((n - 1) % Len(ZoneOffsets)) + 1]

ZoneLines ==
    [n \in 1..(Len(ZoneLiterals) * Len(ZoneOffsets)) |->
        Header("", ZoneLit(n).text, ZoneOff(n).text, "ERR", "Boom", "")]

\* Lines that hold a level token elsewhere than in a header's brackets: a
\* Warning whose message quotes [ERR], and a line that is no header.
SummaryLines ==
    << Header("", "2025-04-17 08:26:00.000", "+02:00", "WRN", "Retry after [ERR] reply", ""),
       Other("plain", "  ", "see [ERR] above", "\r") >>

\* Lines for the one-line lookahead: a header whose message holds the inner
\* exception marker, and a line that ends in "--- End of".
LookaheadLines ==
    << Header("", "2025-04-17 08:40:00.000", "+02:00", "ERR", "Outer ---> Inner", ""),
       Other("cont", "", "marker --- End of", "") >>

\* Headers whose date-time literal has the digits of the format and denotes no
\* date or no time: month 13, hour 99.
InvalidDateLines ==
    << Header("", "2025-13-17 08:21:24.838", "+02:00", "ERR", "Lost", ""),
       Header("", "2025-04-17 99:21:24.838", "+02:00", "WRN", "Late", "") >>

LineCatalogue == BaseLines \o ZoneLines \o SummaryLines \o LookaheadLines \o InvalidDateLines

BaseIds == 1..Len(BaseLines)
ZoneIds == (Len(BaseLines) + 1)..(Len(BaseLines) + Len(ZoneLines))
SummaryIds == (Len(BaseLines) + Len(ZoneLines) + 1)..(Len(BaseLines) + Len(ZoneLines) + Len(SummaryLines))
LookaheadIds ==
    (Len(BaseLines) + Len(ZoneLines) + Len(SummaryLines) + 1)
        ..(Len(BaseLines) + Len(ZoneLines) + Len(SummaryLines) + Len(LookaheadLines))
InvalidDateIds ==
    (Len(BaseLines) + Len(ZoneLines) + Len(SummaryLines) + Len(LookaheadLines) + 1)
        ..Len(LineCatalogue)

MaxLines == 3

LineSeqs(n) == UNION {[1..k -> BaseIds] : k \in 0..n}

FileOf(name, ids) ==
    [name |-> name, readable |-> TRUE,
     text |-> JoinLines([i \in 1..Len(ids) |-> LineCatalogue[ids[i]]]),
     src  |-> ids]          \* src: the catalogue lines the text was written from

UnreadableFile(name) == [name |-> name, readable |-> FALSE, text |-> "", src |-> <<>>]

LocalOffsets == {-120, 300}

\* Nothing uploaded yet: handleUpload not started, the App as constructed.
InitApp ==
    /\ upPc = "idle"
    /\ upIndex = 1
    /\ upLogData = <<>>
    /\ logData = <<>>
    /\ selectedMessage = <<>>
    /\ logType = "ERR"
    /\ fileStats = SelectLoop(EmptyMap, files, 1)
    /\ selectRuns = <<>>
    /\ uploadRuns = <<>>
    /\ lastBatch = <<>>
    /\ modalOpen = FALSE
    /\ selectedErrorGroup = <<>>
    /\ currentErrorIndex = 0

\* One file of up to MaxLines lines of every kind.
InitParse ==
    /\ files \in {<<FileOf("app.log", ids)>> : ids \in LineSeqs(MaxLines)}
                 \cup {<<UnreadableFile("app.log")>>}
    /\ localOffset \in LocalOffsets
    /\ InitApp

SpecParse == InitParse /\ [][NextUpload]_vars

\* One file of two headers, every pair of literal and offset.
InitZone ==
    /\ files \in {<<FileOf("app.log", <<a, b>>)>> : a \in ZoneIds, b \in ZoneIds}
    /\ localOffset \in LocalOffsets
    /\ InitApp

SpecZone == InitZone /\ [][NextUpload]_vars

\* The lines of LookaheadFiles after the first: a stack trace line, a Warning
\* header, the garbage line, the blank line, the header with the marker.
LookaheadLineIds == {2, 3, 5, 6, Len(BaseLines) + Len(ZoneLines) + Len(SummaryLines) + 1}

\* An Error header and up to MaxLines further lines.
InitLookahead ==
    /\ files \in {<<FileOf("app.log", <<1>> \o ids)>> :
                     ids \in UNION {[1..k -> LookaheadLineIds] : k \in 0..MaxLines}}
    /\ localOffset \in LocalOffsets
    /\ InitApp

SpecLookahead == InitLookahead /\ [][NextUpload]_vars

\* The lines of the files of stack traces after the first: a stack trace line,
\* the garbage line, the end-of-trace marker, the inner exception marker, the
\* line that ends in "--- End of".
TraceLineIds == {2, 5, 7, 8, Len(BaseLines) + Len(ZoneLines) + Len(SummaryLines) + 2}

\* An Error header and up to MaxLines further lines that are no headers.
InitTrace ==
    /\ files \in {<<FileOf("app.log", <<1>> \o ids)>> :
                     ids \in UNION {[1..k -> TraceLineIds] : k \in 0..MaxLines}}
    /\ localOffset \in LocalOffsets
    /\ InitApp

SpecTrace == InitTrace /\ [][NextUpload]_vars

\* Up to MaxLines headers, of valid and of invalid date-time literals.
InitDates ==
    /\ files \in {<<FileOf("app.log", ids)>> :
                     ids \in UNION {[1..k -> {1, 3} \cup InvalidDateIds] : k \in 0..MaxLines}}
    /\ localOffset \in LocalOffsets
    /\ InitApp

SpecDates == InitDates /\ [][NextUpload]_vars

\* The lines of the files of closed entries after the first: a stack trace
\* line, a Warning header, the [INF] header, the garbage line.
CloseLineIds == {2, 3, 4, 5}

\* An Error header and up to MaxLines further lines.
InitClose ==
    /\ files \in {<<FileOf("app.log", <<1>> \o ids)>> :
                     ids \in UNION {[1..k -> CloseLineIds] : k \in 0..MaxLines}}
    /\ localOffset \in LocalOffsets
    /\ InitApp

SpecClose == InitClose /\ [][NextUpload]_vars

-----------------------------------------------------------------------------
(* A batch of several files *)

MaxFiles == 3

FileName(i) == "file" \o ToString(i) \o ".log"

\* What a file of a batch holds: nothing, a Warning and then an earlier Error,
\* an Error with a stack trace line, the garbage line, an Error.
BatchContents == {<<>>, <<3, 1>>, <<1, 2>>, <<5>>, <<1>>}

BatchFiles(i) ==
    {FileOf(FileName(i), ids) : ids \in BatchContents} \cup {UnreadableFile(FileName(i))}

Batches ==
    UNION {{fs \in [1..n -> UNION {BatchFiles(i) : i \in 1..n}] :
               \A i \in 1..n : fs[i] \in BatchFiles(i)} : n \in 1..MaxFiles}

\* Up to MaxFiles selected files, in selection order.
InitBatch ==
    /\ files \in Batches
    /\ localOffset \in LocalOffsets
    /\ InitApp

SpecBatch == InitBatch /\ [][NextUpload]_vars

\* What a file holds that ends or starts within a stack trace: an Error, a
\* stack trace line, an Error with a stack trace line, a stack trace line and
\* then a Warning.
CarryContents == {<<1>>, <<2>>, <<1, 2>>, <<2, 3>>}

CarryFiles(i) == {FileOf(FileName(i), ids) : ids \in CarryContents}

CarryBatches ==
    UNION {{fs \in [1..n -> UNION {CarryFiles(i) : i \in 1..n}] :
               \A i \in 1..n : fs[i] \in CarryFiles(i)} : n \in 1..MaxFiles}

\* Up to MaxFiles such files, in selection order.
InitCarry ==
    /\ files \in CarryBatches
    /\ localOffset \in LocalOffsets
    /\ InitApp

SpecCarry == InitCarry /\ [][NextUpload]_vars

-----------------------------------------------------------------------------
(* Selections, removals and uploads that overlap: every handler as the steps *)
(* between its awaits                                                        *)

MaxSelected == 2
MaxRuns == 2

\* Two files of the same name and different contents, and one that cannot be
\* read.
AsyncFiles ==
    { FileOf("a.log", <<1>>),
      FileOf("a.log", <<3, Len(BaseLines) + Len(ZoneLines) + 1,
                           Len(BaseLines) + Len(ZoneLines) + 2>>),
      UnreadableFile("b.log") }

\* event.target.files: one file, or two at once.
Selections == {<<f>> : f \in AsyncFiles} \cup {<<f, g>> : f \in AsyncFiles, g \in AsyncFiles}

\* handleFileSelect up to its first await: the files are appended and the
\* Map of this render is copied.
HandleFileSelect ==
    \E newFiles \in Selections :
        /\ Len(files) + Len(newFiles) <= MaxSelected
        /\ Len(selectRuns) < MaxRuns
        /\ files' = files \o newFiles
        /\ selectRuns' = Append(selectRuns,
                                [newFiles |-> newFiles, index |-> 1, newStats |-> fileStats])
        /\ UNCHANGED <<ModalVars, localOffset, upPc, upIndex, upLogData, logData, selectedMessage,
                       logType, fileStats, uploadRuns, lastBatch>>

\* handleFileSelect from one await to the next: the text of a file arrives,
\* or the read fails; after the last file, setFileStats(newStats).
HandleFileSelectAwait ==
    \E r \in 1..Len(selectRuns) :
        LET run      == selectRuns[r]
            newStats == SelectFile(run.newStats, run.newFiles[run.index])
        IN  /\ IF run.index = Len(run.newFiles)
               THEN /\ fileStats' = newStats
                    /\ selectRuns' = RemoveAt(selectRuns, r)
               ELSE /\ selectRuns' = [selectRuns EXCEPT ![r].index = @ + 1,
                                                        ![r].newStats = newStats]
                    /\ UNCHANGED fileStats
            /\ UNCHANGED <<ModalVars, files, localOffset, upPc, upIndex, upLogData, logData,
                           selectedMessage, logType, uploadRuns, lastBatch>>

\* handleRemoveFile(index), index counted from 1.
HandleRemoveFile ==
    \E index \in 1..Len(files) :
        /\ files' = RemoveAt(files, index)
        /\ fileStats' = MapDelete(fileStats, files[index].name)
        /\ UNCHANGED <<ModalVars, localOffset, upPc, upIndex, upLogData, logData, selectedMessage,
                       logType, selectRuns, uploadRuns, lastBatch>>

\* handleUpload up to its first await; the button is disabled with no file.
HandleUploadClick ==
    /\ files # <<>>
    /\ Len(uploadRuns) < MaxRuns
    /\ uploadRuns' = Append(uploadRuns, [files |-> files, index |-> 1, logData |-> <<>>])
    /\ lastBatch' = files
    /\ UNCHANGED <<ModalVars, files, localOffset, upPc, upIndex, upLogData, logData, selectedMessage,
                   logType, fileStats, selectRuns>>

\* handleUpload from one await to the next; after the last file,
\* onFileUpload(logData).
HandleUploadAwait ==
    \E r \in 1..Len(uploadRuns) :
        LET run == uploadRuns[r]
            acc == ParseFile(run.logData, run.files[run.index], localOffset)
        IN  /\ IF run.index = Len(run.files)
               THEN /\ handleFileUpload(acc)
                    /\ uploadRuns' = RemoveAt(uploadRuns, r)
               ELSE /\ uploadRuns' = [uploadRuns EXCEPT ![r].index = @ + 1,
                                                        ![r].logData = acc]
                    /\ UNCHANGED <<logData, selectedMessage>>
            /\ UNCHANGED <<ModalVars, files, localOffset, upPc, upIndex, upLogData, logType,
                           fileStats, selectRuns, lastBatch>>

\* Nothing selected yet; files are selected and removed, selections overlap.
InitSelect ==
    /\ files = <<>>
    /\ localOffset = -120
    /\ InitApp

NextSelect == HandleFileSelect \/ HandleFileSelectAwait \/ HandleRemoveFile

SpecSelect == InitSelect /\ [][NextSelect]_vars

\* Two files selected and their tallies shown; uploads are started, files are
\* removed, runs overlap.
InitRace ==
    /\ files \in {<<f, g>> : f \in AsyncFiles, g \in AsyncFiles}
    /\ localOffset = -120
    /\ InitApp

NextRace == HandleUploadClick \/ HandleUploadAwait \/ HandleRemoveFile

SpecRace == InitRace /\ [][NextRace]_vars

-----------------------------------------------------------------------------
(* The App with a repository delivered to it: uploads, the level toggle,     *)
(* clicks on the group list                                                 *)

\* 08:21:24.838 UTC of the day instants are counted from.
BaseInstant == (8 * 60 + 21) * 60000 + 24838

\* The first instant, one exactly a quarter of an hour later, and the next
\* millisecond.
InstantSet == {BaseInstant, BaseInstant + 900000, BaseInstant + 900001}

\* Two Error messages with the same first line, and a Warning.
MessageSet ==
    { [message |-> "Boom\nat Foo.Bar()", level |-> "ERR"],
      [message |-> "Boom\nat Foo.Baz()", level |-> "ERR"],
      [message |-> "Careful", level |-> "WRN"] }

EntryUniverse ==
    {[timestamp |-> t, message |-> m.message, file |-> "app.log", level |-> m.level] :
        t \in InstantSet, m \in MessageSet}

MaxEntries == 3

DataInputs == UNION {[1..k -> EntryUniverse] : k \in 0..MaxEntries}

Filtered == filteredLogData(logData, logType)

UploadVars == <<files, localOffset, upPc, upIndex, upLogData>>

\* A further batch: nothing, or a single entry.
NextInputs == {<<>>} \cup {<<e>> : e \in EntryUniverse}

\* handleUpload ends in onFileUpload(logData): a batch reaches the App.  The
\* first batch is any of `first`, a later one any of NextInputs.
Deliver(first) ==
    \E data \in (IF upPc = "idle" THEN first ELSE NextInputs) :
        /\ handleFileUpload(data)
        /\ upPc' = "done"
        /\ UNCHANGED <<ModalVars, files, localOffset, upIndex, upLogData, logType, AsyncVars>>

HandleFileUpload == Deliver(DataInputs)

\* handleLogTypeChange(_, newLogType); <<>> is the null of a click on the
\* button that is already selected.
HandleLogTypeChange ==
    \E newLogType \in {<<>>, <<"ERR">>, <<"WRN">>} :
        /\ handleLogTypeChange(newLogType)
        /\ UNCHANGED <<ModalVars, UploadVars, logData, AsyncVars>>

\* A click on one of the groups the list shows.
HandleGroupClick ==
    \E message \in (LET groups == messageGroups(Filtered)
                    IN  {groups[g].message : g \in 1..Len(groups)}) :
        /\ selectedMessage' = handleGroupClick(selectedMessage, message)
        /\ UNCHANGED <<ModalVars, UploadVars, logData, logType, AsyncVars>>

\* The "Show All" button, rendered while a group is selected.
ShowAll ==
    /\ Truthy(selectedMessage)
    /\ selectedMessage' = <<>>
    /\ UNCHANGED <<ModalVars, UploadVars, logData, logType, AsyncVars>>

Init ==
    /\ files = <<>>
    /\ localOffset = 0
    /\ InitApp

Next == HandleFileUpload \/ HandleLogTypeChange \/ HandleGroupClick \/ ShowAll

Spec == Init /\ [][Next]_vars

-----------------------------------------------------------------------------
(* The group list on repositories of many groups *)

GroupSlack == 1
MaxDups == 2

ErrorEntry(message) ==
    [timestamp |-> BaseInstant, message |-> message, file |-> "app.log", level |-> "ERR"]

GroupKey(i) == "Error " \o ToString(i)

\* n entries of n different messages, then one more entry of each message
\* listed in dups.
ManyGroups(n, dups) ==
    [i \in 1..n |-> ErrorEntry(GroupKey(i))]
    \o [j \in 1..Len(dups) |-> ErrorEntry(GroupKey(dups[j]))]

\* As many groups as the list shows, and GroupSlack fewer or more.
GroupCounts ==
    {top + d : top \in {TopN, TopNEarlier}, d \in (0 - GroupSlack)..GroupSlack}

ManyGroupsInputs ==
    UNION {{ManyGroups(n, dups) : dups \in UNION {[1..k -> {1, n - 1, n}] : k \in 0..MaxDups}} :
              n \in GroupCounts}

\* Up to MaxEntries + 1 entries of three messages.
FewGroupsInputs ==
    UNION {[1..k -> {ErrorEntry(m) : m \in {"Boom\nat Foo.Bar()", "Boom\nat Foo.Baz()", "Timeout"}}] :
              k \in 0..(MaxEntries + 1)}

HandleFileUploadGroups == Deliver(ManyGroupsInputs \cup FewGroupsInputs)

NextGroups == HandleFileUploadGroups \/ HandleLogTypeChange

SpecGroups == Init /\ [][NextGroups]_vars

-----------------------------------------------------------------------------
(* The group list next to the timeline: entries some minutes apart *)

\* The first instant, and the instants 10 and 19 minutes later: the later two
\* are in one quarter of an hour of the clock (08:30 to 08:45), and more than a
\* quarter of an hour after the first.
OverlapInstants == {BaseInstant, BaseInstant + 10 * MsPerMinute, BaseInstant + 19 * MsPerMinute}

OverlapUniverse ==
    {[timestamp |-> t, message |-> m, file |-> "app.log", level |-> "ERR"] :
        t \in OverlapInstants, m \in {"Boom", "Timeout"}}

OverlapInputs == UNION {[1..k -> OverlapUniverse] : k \in 0..MaxEntries}

HandleFileUploadOverlap == Deliver(OverlapInputs)

NextOverlap == HandleFileUploadOverlap \/ HandleLogTypeChange \/ HandleGroupClick \/ ShowAll

SpecOverlap == Init /\ [][NextOverlap]_vars

-----------------------------------------------------------------------------
(* Selecting in a list that is cut off *)

\* More groups than the list shows, each seen once; and the same with a second
\* entry of the last group, which moves it to the head of the list.
TopInputs ==
    {ManyGroups(TopN + GroupSlack, dups) : dups \in {<<>>, <<TopN + GroupSlack>>}}

HandleFileUploadTop == Deliver(TopInputs)

NextTop == HandleFileUploadTop \/ HandleLogTypeChange \/ HandleGroupClick \/ ShowAll

SpecTop == Init /\ [][NextTop]_vars

-----------------------------------------------------------------------------
(* The detail modal of the group list *)

\* A click on the info button of one of the groups the list shows.
HandleShowDetails ==
    /\ ~modalOpen
    /\ \E g \in 1..Len(messageGroups(Filtered)) :
          handleShowDetails(messageGroups(Filtered)[g])
    /\ UNCHANGED <<UploadVars, logData, selectedMessage, logType, AsyncVars>>

\* onNavigate of the modal, with either direction at any index.
HandleNavigate ==
    /\ modalOpen
    /\ \E direction \in {"prev", "next"} : handleNavigate(direction)
    /\ UNCHANGED <<UploadVars, logData, selectedMessage, logType, AsyncVars>>

\* The modal is closed (its Close button, the backdrop, Escape).
HandleClose ==
    /\ modalOpen
    /\ onClose
    /\ UNCHANGED <<UploadVars, logData, selectedMessage, logType, AsyncVars>>

NextModal == HandleFileUploadOverlap \/ HandleShowDetails \/ HandleNavigate \/ HandleClose

SpecModal == Init /\ [][NextModal]_vars

-----------------------------------------------------------------------------
(* What the input says, read off the parts the lines were written from *)

SrcLine(f, i) == LineCatalogue[f.src[i]]

Recognized(l) == l.kind = "header" /\ l.token \in {"ERR", "WRN"}

\* The positions of the recognized headers of file f, in file order.
RECURSIVE HeaderPositions(_, _)
HeaderPositions(f, i) ==
    IF i > Len(f.src) THEN <<>>
    ELSE (IF Recognized(SrcLine(f, i)) THEN <<i>> ELSE <<>>) \o HeaderPositions(f, i + 1)

UploadDone == upPc = "done"

-----------------------------------------------------------------------------
(* C1 *)

OnlyHeaders(f) ==
    /\ f.readable
    /\ \A i \in 1..Len(f.src) : SrcLine(f, i).kind = "blank" \/ Recognized(SrcLine(f, i))

\* C1: a file whose non-empty lines are all ERR/WRN headers yields exactly one
\* entry per header, in file order, with the header's remainder as message.
C1_OneEntryPerHeader ==
    (UploadDone /\ OnlyHeaders(files[1])) =>
        LET hs == HeaderPositions(files[1], 1)
        IN  /\ Len(logData) = Len(hs)
            /\ \A k \in 1..Len(hs) :
                  /\ logData[k].message = SrcLine(files[1], hs[k]).body
                  /\ logData[k].level = SrcLine(files[1], hs[k]).token
                  /\ logData[k].file = files[1].name

C1_Witness ==
    /\ UploadDone
    /\ OnlyHeaders(files[1])
    /\ Len(files[1].src) = 3
    /\ Len(logData) = 2
    /\ logData[1].message # logData[2].message

-----------------------------------------------------------------------------
(* C2 *)

\* The last line of the stretch that follows the header at position i and
\* holds no header-shaped line.
RunEnd(f, i) ==
    CHOOSE j \in i..Len(f.src) :
        /\ \A m \in (i + 1)..j : SrcLine(f, m).kind # "header"
        /\ j = Len(f.src) \/ SrcLine(f, j + 1).kind = "header"

\* The header at i is followed, up to the next header or the end of the file,
\* by continuation-matching lines only (blank lines are not lines of the input).
FollowedByContinuations(f, i) ==
    \A m \in (i + 1)..RunEnd(f, i) : SrcLine(f, m).kind \in {"cont", "blank"}

\* The continuation lines from..to, each after a newline, in file order.
RECURSIVE JoinedContinuations(_, _, _)
JoinedContinuations(f, from, to) ==
    IF from > to THEN ""
    ELSE (IF SrcLine(f, from).kind = "cont" THEN "\n" \o SrcLine(f, from).body ELSE "")
         \o JoinedContinuations(f, from + 1, to)

\* C2: a recognized header followed by N >= 0 consecutive continuation-matching
\* lines yields exactly one entry, whose message is the header remainder and
\* the N (trimmed) lines joined by newlines, in their order.
C2_ContinuationsAppended ==
    (UploadDone /\ files[1].readable) =>
        LET f  == files[1]
            hs == HeaderPositions(f, 1)
        IN  /\ Len(logData) = Len(hs)
            /\ \A k \in 1..Len(hs) :
                  FollowedByContinuations(f, hs[k]) =>
                      logData[k].message =
                          SrcLine(f, hs[k]).body
                          \o JoinedContinuations(f, hs[k] + 1, RunEnd(f, hs[k]))

C2_Witness ==
    /\ UploadDone
    /\ files[1].readable
    /\ Len(files[1].src) = 3
    /\ Recognized(SrcLine(files[1], 1))
    /\ SrcLine(files[1], 2).kind = "cont"
    /\ SrcLine(files[1], 3).kind = "cont"
    /\ SrcLine(files[1], 2) # SrcLine(files[1], 3)
    /\ Len(logData) = 1
    /\ logData[1].message =
          SrcLine(files[1], 1).body \o "\n" \o SrcLine(files[1], 2).body
                                    \o "\n" \o SrcLine(files[1], 3).body

-----------------------------------------------------------------------------
(* C3 *)

ExampleText ==
    "2025-04-17 08:21:24.838 +02:00 [ERR] Boom\n"
    \o "   at Foo.Bar()\n"
    \o "2025-04-17 08:25:00.000 +02:00 [WRN] Careful"

LevelsAndMessages(data) ==
    [i \in 1..Len(data) |-> [level |-> data[i].level, message |-> data[i].message]]

\* C3 as stated: the example's three lines yield an Error entry with message
\* "Boom\n   at Foo.Bar()" (indentation kept) and a Warning entry "Careful".
C3_ExampleKeepsIndentation ==
    (UploadDone /\ files[1].readable /\ files[1].text = ExampleText) =>
        LevelsAndMessages(logData) =
            << [level |-> "ERR", message |-> "Boom\n   at Foo.Bar()"],
               [level |-> "WRN", message |-> "Careful"] >>

\* C3 amended: the example's three lines yield exactly two entries, an Error
\* entry with message "Boom\nat Foo.Bar()" (the continuation line is appended
\* trimmed) and a Warning entry with message "Careful".
C3_ExampleTrimmed ==
    (UploadDone /\ files[1].readable /\ files[1].text = ExampleText) =>
        LevelsAndMessages(logData) =
            << [level |-> "ERR", message |-> "Boom\nat Foo.Bar()"],
               [level |-> "WRN", message |-> "Careful"] >>

C3_Witness ==
    /\ UploadDone
    /\ files[1].readable
    /\ files[1].text = ExampleText
    /\ Len(logData) = 2

-----------------------------------------------------------------------------
(* C4 *)

\* The absolute instant a zone header denotes: its literal minus its offset.
DenotedInstant(l) ==
    LET lit == CHOOSE z \in {ZoneLiterals[i] : i \in 1..Len(ZoneLiterals)} : z.text = l.ts
        off == CHOOSE z \in {ZoneOffsets[i] : i \in 1..Len(ZoneOffsets)} : z.text = l.tz
    IN  lit.at - off.east * 60000

\* C4: the instants of two headers compare exactly as literal minus offset do,
\* for offsets of either sign, with or without minutes.
C4_InstantsCompareAsDenoted ==
    (UploadDone /\ Len(logData) = 2 /\ files[1].src[1] \in ZoneIds /\ files[1].src[2] \in ZoneIds) =>
        LET d1 == DenotedInstant(SrcLine(files[1], 1))
            d2 == DenotedInstant(SrcLine(files[1], 2))
        IN  /\ (logData[1].timestamp < logData[2].timestamp) <=> (d1 < d2)
            /\ (logData[1].timestamp = logData[2].timestamp) <=> (d1 = d2)

-----------------------------------------------------------------------------
(* The timeline of the current state *)

Chart == chartData(Filtered, selectedMessage)

\* The entries the timeline counts: those of the selected group, or all of the
\* level-filtered set when none is selected.
Counted ==
    SelectSeq(Filtered, LAMBDA e : selectedMessage = <<>> \/ e.message = selectedMessage[1])

QuarterHour == 15 * 60000
HalfHour == 30 * 60000

TimestampsOf(data) == {data[i].timestamp : i \in 1..Len(data)}

Earliest(data) == CHOOSE t \in TimestampsOf(data) : \A u \in TimestampsOf(data) : t <= u
Latest(data) == CHOOSE t \in TimestampsOf(data) : \A u \in TimestampsOf(data) : u <= t

Occurrences(data, e) == Cardinality({i \in 1..Len(data) : data[i] = e})

RECURSIVE Sum(_)
Sum(numbers) == IF numbers = <<>> THEN 0 ELSE Head(numbers) + Sum(Tail(numbers))

ErrorCounts(chart) == [k \in 1..Len(chart) |-> chart[k].errorCount]
WarningCounts(chart) == [k \in 1..Len(chart) |-> chart[k].warningCount]

-----------------------------------------------------------------------------
(* C5 *)

\* C5: every counted entry lies in the half-open window [start, start + 15 min)
\* of the interval it is counted in; an entry at an interval's start is counted
\* in the interval that starts there.
C5_HalfOpenWindows ==
    \A k \in 1..Len(Chart) :
        \A i \in 1..Len(Chart[k].entries) :
            /\ Chart[k].timestamp <= Chart[k].entries[i].timestamp
            /\ Chart[k].entries[i].timestamp < Chart[k].timestamp + QuarterHour

-----------------------------------------------------------------------------
(* C6 *)

\* C6: over all intervals, errorCount sums to the number of Error entries
\* counted and warningCount to the number of Warning entries counted, and every
\* counted entry is in the entry list of exactly one interval.
C6_CountsConserved ==
    LET chart   == Chart
        counted == Counted
    IN  /\ Sum(ErrorCounts(chart)) =
              Cardinality({i \in 1..Len(counted) : counted[i].level = "ERR"})
        /\ Sum(WarningCounts(chart)) =
              Cardinality({i \in 1..Len(counted) : counted[i].level = "WRN"})
        /\ \A e \in EntryUniverse :
              Sum([k \in 1..Len(chart) |-> Occurrences(chart[k].entries, e)])
                  = Occurrences(counted, e)

C6_Witness ==
    /\ selectedMessage # <<>>
    /\ Len(Counted) = 2
    /\ Len(Filtered) = 3
    /\ Cardinality({k \in 1..Len(Chart) : Chart[k].entries # <<>>}) = 2
    /\ Sum(ErrorCounts(Chart)) = 2

-----------------------------------------------------------------------------
(* C7 *)

Range == DateRange(Filtered, selectedMessage)

StartsOf(chart) == {chart[k].timestamp : k \in 1..Len(chart)}

\* What a click on the group list, or on "Show All", can make the selection.
Selectable ==
    {<<>>} \cup {<<messageGroups(Filtered)[g].message>> : g \in 1..Len(messageGroups(Filtered))}

\* C7: for a non-empty level-filtered set the range starts exactly 30 minutes
\* before the earliest timestamp and ends exactly 30 minutes after the latest,
\* and selecting, changing or clearing the selected group changes neither the
\* range nor the set of interval start times.
C7_RangeIgnoresSelection ==
    Filtered # <<>> =>
        /\ Range.startDate = Earliest(Filtered) - HalfHour
        /\ Range.endDate = Latest(Filtered) + HalfHour
        /\ \A selectedError \in Selectable :
              /\ DateRange(Filtered, selectedError) = Range
              /\ StartsOf(chartData(Filtered, selectedError)) = StartsOf(Chart)

C7_Witness ==
    /\ selectedMessage # <<>>
    /\ Counted # <<>>
    /\ Earliest(Counted) > Earliest(Filtered)
    /\ Latest(Counted) < Latest(Filtered)
    /\ Range.startDate = Earliest(Filtered) - HalfHour

-----------------------------------------------------------------------------
(* The group list of the current state *)

MessagesOf(data) == {data[i].message : i \in 1..Len(data)}

IndicesOf(data, message) == {i \in 1..Len(data) : data[i].message = message}

FirstIndexOf(data, message) ==
    CHOOSE i \in IndicesOf(data, message) : \A j \in IndicesOf(data, message) : i <= j

KeysOf(groups) == {groups[g].message : g \in 1..Len(groups)}

-----------------------------------------------------------------------------
(* C8 *)

SortedAndStable(groups) ==
    LET first == ArrayFrom([g \in 1..Len(groups) |->
                                FirstIndexOf(Filtered, groups[g].message)])
    IN  \A p \in 1..Len(groups) : \A q \in (p + 1)..Len(groups) :
            /\ groups[p].count >= groups[q].count
            /\ groups[p].count = groups[q].count => first[p] < first[q]

\* C8: the group list is sorted by count, non-increasing, and groups of equal
\* count are in the order of their first occurrence in the input.
C8_SortedByCountStable ==
    /\ SortedAndStable(messageGroups(Filtered))
    /\ SortedAndStable(messageGroupsEarlier(Filtered))

C8_Witness ==
    LET groups == messageGroups(Filtered)
    IN  /\ Len(groups) = 3
        /\ groups[1].count > groups[2].count
        /\ groups[2].count = groups[3].count
        /\ FirstIndexOf(Filtered, groups[1].message) > FirstIndexOf(Filtered, groups[3].message)

-----------------------------------------------------------------------------
(* C9 *)

\* C9: before truncation the groups partition the filtered entries: every entry
\* is in exactly one group, the one keyed by its full message; each group holds
\* the entries of its message in input order, and its count is their number.
C9_GroupsPartitionEntries ==
    LET groups == SortedGroups(Filtered)
    IN  /\ \A i \in 1..Len(Filtered) :
              Cardinality({g \in 1..Len(groups) :
                              \E o \in 1..Len(groups[g].occurrences) :
                                  groups[g].occurrences[o] = Filtered[i]}) = 1
        /\ \A g \in 1..Len(groups) :
              /\ groups[g].occurrences =
                    SelectSeq(Filtered, LAMBDA e : e.message = groups[g].message)
              /\ groups[g].count = Len(groups[g].occurrences)
              /\ groups[g].count >= 1
        /\ \A g \in 1..Len(groups) : \A h \in 1..Len(groups) :
              g # h => groups[g].message # groups[h].message

C9_Witness ==
    LET groups == SortedGroups(Filtered)
    IN  /\ Len(groups) = 2
        /\ groups[1].count = 2
        /\ groups[2].count = 2
        /\ FirstLine(groups[1].message) = FirstLine(groups[2].message)

-----------------------------------------------------------------------------
(* C10 *)

\* Every group left out of `shown` has at most the count of each group in it.
KeepsTheTop(shown) ==
    LET count == [m \in MessagesOf(Filtered) |-> Cardinality(IndicesOf(Filtered, m))]
    IN  /\ KeysOf(shown) \subseteq MessagesOf(Filtered)
        /\ \A out \in MessagesOf(Filtered) \ KeysOf(shown) :
              \A in \in KeysOf(shown) : count[out] <= count[in]

\* C10: the list holds at most N groups (100 in the current ErrorList, 15 in the
\* earlier one), and no group left out has a larger count than a group shown.
C10_TruncationKeepsTop ==
    /\ Len(messageGroups(Filtered)) <= 100
    /\ Len(messageGroupsEarlier(Filtered)) <= 15
    /\ KeepsTheTop(messageGroups(Filtered))
    /\ KeepsTheTop(messageGroupsEarlier(Filtered))

C10_Witness ==
    /\ Cardinality(MessagesOf(Filtered)) > 100
    /\ Len(messageGroups(Filtered)) = 100
    /\ Len(messageGroupsEarlier(Filtered)) = 15
    /\ LET groups == messageGroups(Filtered)
       IN  \E g \in 1..Len(groups) :
              /\ groups[g].count = 2
              /\ FirstIndexOf(Filtered, groups[g].message) > 100

-----------------------------------------------------------------------------
(* C11, C12 *)

\* The entries of the repository at the positions in I, in order.
EntriesAt(I) ==
    LET at == SelectSeq([i \in 1..Len(logData) |-> i], LAMBDA i : i \in I)
    IN  ArrayFrom([k \in 1..Len(at) |-> logData[at[k]]])

\* Every sub-sequence of the repository, the empty one included.
EntrySets == {EntriesAt(I) : I \in SUBSET (1..Len(logData))}

\* C11: hasTemporalOverlap(A, B) = hasTemporalOverlap(B, A) for any two entry
\* sets A and B.
C11_OverlapSymmetric ==
    LET sets == EntrySets
    IN  \A A \in sets : \A B \in sets :
            hasTemporalOverlap(A, B) <=> hasTemporalOverlap(B, A)

\* Two entry sets of different sizes, with a quarter hour in common and one
\* that only the larger set has.
C11_Witness ==
    \E A \in EntrySets : \E B \in EntrySets :
        /\ Len(A) = 1
        /\ Len(B) = 2
        /\ hasTemporalOverlap(A, B)
        /\ hasTemporalOverlap(B, A)
        /\ \E k \in 1..2 : ~hasTemporalOverlap(<<B[k]>>, A)

\* The quarter hour of an instant: floor(timestamp / 15 min).
Bucket(t) == t \div QuarterHour

-----------------------------------------------------------------------------
(* C14 *)

\* The header-shaped lines of file f whose token is no level.
OtherLevelPositions(f) ==
    {i \in 1..Len(f.src) : SrcLine(f, i).kind = "header" /\ ~Recognized(SrcLine(f, i))}

\* C14: every entry of the repository has level ERR or WRN, and a header-shaped
\* line with any other token starts no entry: the entries are those of the ERR
\* and WRN headers, and such a line only ends the entry that was open.
C14_OnlyErrorAndWarning ==
    /\ \A k \in 1..Len(logData) : logData[k].level \in {"ERR", "WRN"}
    /\ \A k \in 1..Len(upLogData) : upLogData[k].level \in {"ERR", "WRN"}
    /\ (UploadDone /\ files[1].readable) =>
          LET f  == files[1]
              hs == HeaderPositions(f, 1)
          IN  /\ Len(logData) = Len(hs)
              /\ \A k \in 1..Len(hs) :
                    /\ logData[k].level = SrcLine(f, hs[k]).token
                    /\ hs[k] + 1 \in OtherLevelPositions(f) =>
                          logData[k].message = SrcLine(f, hs[k]).body

\* An INF header between an ERR header and a stack trace line.
C14_Witness ==
    /\ UploadDone
    /\ files[1].readable
    /\ Len(files[1].src) = 3
    /\ Recognized(SrcLine(files[1], 1))
    /\ 2 \in OtherLevelPositions(files[1])
    /\ SrcLine(files[1], 3).kind = "cont"
    /\ Len(logData) = 1
    /\ logData[1].message = SrcLine(files[1], 1).body

-----------------------------------------------------------------------------
(* C15 *)

\* The position of the first recognized header of f, or Len(f.src) + 1.
FirstHeader(f) ==
    IF HeaderPositions(f, 1) = <<>> THEN Len(f.src) + 1 ELSE HeaderPositions(f, 1)[1]

\* The file f without the lines before its first recognized header.
FromFirstHeader(f) == FileOf(f.name, SubSeq(f.src, FirstHeader(f), Len(f.src)))

\* C15: the lines before the first recognized header of a file are discarded:
\* they produce no entry and are appended to none, and nothing is raised; the
\* file yields what it yields without them.
C15_LinesBeforeFirstHeaderDiscarded ==
    (UploadDone /\ files[1].readable) =>
        /\ Len(logData) = Len(HeaderPositions(files[1], 1))
        /\ HeaderPositions(files[1], 1) = <<>> => logData = <<>>
        /\ HeaderPositions(files[1], 1) # <<>> =>
              SplitLines(logData[1].message)[1]
                  = SrcLine(files[1], FirstHeader(files[1])).body
        /\ logData = ParseFile(<<>>, FromFirstHeader(files[1]), localOffset)

\* The garbage line and a stack trace line before a header.
C15_Witness ==
    /\ UploadDone
    /\ files[1].readable
    /\ Len(files[1].src) = 3
    /\ SrcLine(files[1], 1).kind = "plain"
    /\ SrcLine(files[1], 2).kind = "cont"
    /\ Recognized(SrcLine(files[1], 3))
    /\ Len(logData) = 1
    /\ logData[1].message = SrcLine(files[1], 3).body

-----------------------------------------------------------------------------
(* C16 *)

\* File, level and first line of each entry.
HeadsOf(data) ==
    [k \in 1..Len(data) |->
        <<data[k].file, data[k].level, SplitLines(data[k].message)[1]>>]

\* Name, token and remainder of each recognized header of f, in file order.
HeaderHeads(f) ==
    LET hs == HeaderPositions(f, 1)
    IN  [k \in 1..Len(hs) |-> <<f.name, SrcLine(f, hs[k]).token, SrcLine(f, hs[k]).body>>]

RECURSIVE BatchHeads(_)
BatchHeads(fs) ==
    IF fs = <<>> THEN <<>> ELSE HeaderHeads(Head(fs)) \o BatchHeads(Tail(fs))

\* C16: the repository delivered is the concatenation, in selection order of
\* the files, of each file's entries in the order of its header lines; nothing
\* is reordered.
C16_ConcatenatedInSelectionOrder ==
    UploadDone => HeadsOf(logData) = BatchHeads(files)

\* Two files with entries; the first file's entries are not in chronological
\* order and the second file starts earlier than the first file ends.
C16_Witness ==
    /\ UploadDone
    /\ Len(files) = 2
    /\ Len(logData) = 3
    /\ logData[1].file = files[1].name
    /\ logData[2].file = files[1].name
    /\ logData[3].file = files[2].name
    /\ logData[1].timestamp > logData[2].timestamp
    /\ logData[1].timestamp > logData[3].timestamp

-----------------------------------------------------------------------------
(* C17 *)

Readable(fs) == SelectSeq(fs, LAMBDA f : f.readable)

RECURSIVE ParseEach(_, _)
ParseEach(fs, tzo) ==
    IF fs = <<>> THEN <<>>
    ELSE ParseFile(<<>>, Head(fs), tzo) \o ParseEach(Tail(fs), tzo)

\* C17: a file whose text cannot be obtained contributes no entry, the entries
\* of the other files of the batch are delivered in order, and the run goes on
\* past the failure, file by file, to deliver a repository.
C17_FileFailureContained ==
    /\ UploadDone =>
          /\ logData = ParseEach(Readable(files), localOffset)
          /\ \A k \in 1..Len(logData) :
                \E i \in 1..Len(files) : files[i].readable /\ files[i].name = logData[k].file
    /\ upPc = "reading" =>
          /\ upIndex \in 1..(Len(files) + 1)
          /\ upLogData = ParseEach(Readable(SubSeq(files, 1, upIndex - 1)), localOffset)

\* An unreadable file between two files with entries.
C17_Witness ==
    /\ UploadDone
    /\ Len(files) = 3
    /\ files[1].readable
    /\ ~files[2].readable
    /\ files[3].readable
    /\ Len(logData) = 2
    /\ logData[1].file = files[1].name
    /\ logData[2].file = files[3].name

-----------------------------------------------------------------------------
(* C13 *)

\* Whether the line, as written, holds the token in brackets: as the level of a
\* header or within its text.
HoldsToken(l, token) ==
    \/ l.kind = "header" /\ l.token = token
    \/ Includes(l.body, "[" \o token \o "]")

\* The number of lines of f that hold [ERR], and the number that hold [WRN].
TokenTally(f) ==
    [errorCount   |-> Cardinality({i \in 1..Len(f.src) : HoldsToken(SrcLine(f, i), "ERR")}),
     warningCount |-> Cardinality({i \in 1..Len(f.src) : HoldsToken(SrcLine(f, i), "WRN")})]

\* C13: the summary computed when a file is selected has errorCount equal to
\* the number of lines that contain [ERR] and warningCount equal to the number
\* of lines that contain [WRN], valid header or not.
C13_SummaryCountsTokens ==
    /\ \A i \in 1..Len(files) :
          files[i].readable => FileSummary(files[i]) = TokenTally(files[i])
    /\ \A r \in 1..Len(selectRuns) :
          LET run == selectRuns[r]
          IN  (run.index > 1 /\ run.newFiles[run.index - 1].readable) =>
                  run.newStats[run.newFiles[run.index - 1].name]
                      = TokenTally(run.newFiles[run.index - 1])

-----------------------------------------------------------------------------
(* C18 *)

\* C18: once no handleUpload run is in flight, the repository is the parse
\* result of the most recently started run, whatever the interleaving of runs
\* and changes of the file list.
C18_LatestUploadWins ==
    (uploadRuns = <<>> /\ lastBatch # <<>>) =>
        logData = ParseEach(Readable(lastBatch), localOffset)

-----------------------------------------------------------------------------
(* C19 *)

\* C19: once no selection is pending, every listed file has a statistics entry
\* with the tallies of its own content, and there is no entry for a name that
\* no listed file has.
C19_StatsFollowFileList ==
    selectRuns = <<>> =>
        /\ \A i \in 1..Len(files) :
              /\ files[i].name \in DOMAIN fileStats
              /\ fileStats[files[i].name] = FileSummary(files[i])
        /\ \A name \in DOMAIN fileStats : \E i \in 1..Len(files) : files[i].name = name

-----------------------------------------------------------------------------
(* C20 *)

\* A step that delivers an upload result: the repository changes, or it is the
\* first delivery.
DeliveryStep == logData' # logData \/ upPc' # upPc

\* C20: a delivery of an upload result sets the selected group key to null; a
\* switch of the level filter sets it to null and the level to ERR or WRN; a
\* toggle event with no level changes neither, so the level is always ERR or
\* WRN.
C20_SelectionResetOnUploadAndToggle ==
    /\ [](logType \in {"ERR", "WRN"})
    /\ [][/\ DeliveryStep => (selectedMessage' = <<>> /\ logType' = logType)
          /\ logType' # logType =>
                (selectedMessage' = <<>> /\ logType' \in {"ERR", "WRN"} /\ logData' = logData)
          /\ handleLogTypeChange(<<>>) => UNCHANGED <<logType, selectedMessage>>]_vars

\* After a delivery and a switch to Warning: Error and Warning groups exist,
\* and none is selected.
C20_Witness ==
    /\ upPc = "done"
    /\ logType = "WRN"
    /\ selectedMessage = <<>>
    /\ Filtered # <<>>
    /\ Len(logData) > Len(Filtered)

-----------------------------------------------------------------------------
(* C21 *)

\* The keys of the groups the list shows.
DisplayedKeys == {messageGroups(Filtered)[g].message : g \in 1..Len(messageGroups(Filtered))}

\* A step that changes the selection and nothing else of the App.
SelectionStep ==
    /\ selectedMessage' # selectedMessage
    /\ logData' = logData
    /\ logType' = logType
    /\ upPc' = upPc

\* C21: at most one group is selected at any time.  A click on the selected
\* group clears the selection and a click on another group makes that group the
\* selected one; a step that changes only the selection ends with no group
\* selected (a click on the selected group, or 'Show All') or with another
\* displayed group selected.  The timeline counts exactly the entries whose
\* message is the selected key, or all level-filtered entries when none is
\* selected.
C21_SingleSelection ==
    /\ [](/\ Len(selectedMessage) <= 1
          /\ \A key \in DisplayedKeys :
                 handleGroupClick(selectedMessage, key)
                     = IF selectedMessage = <<key>> THEN <<>> ELSE <<key>>
          /\ \A k \in 1..Len(Chart) : \A i \in 1..Len(Chart[k].entries) :
                 selectedMessage = <<>> \/ Chart[k].entries[i].message = selectedMessage[1]
          /\ Sum([k \in 1..Len(Chart) |-> Len(Chart[k].entries)])
                 = Cardinality({i \in 1..Len(Filtered) :
                                   selectedMessage = <<>> \/ Filtered[i].message = selectedMessage[1]}))
    /\ [][SelectionStep =>
              \/ selectedMessage' = <<>>
              \/ \E key \in DisplayedKeys :
                    selectedMessage' = <<key>> /\ selectedMessage # <<key>>]_vars

\* A group is selected while the list shows another one too, and the timeline
\* counts two of the three entries.
C21_Witness ==
    /\ selectedMessage # <<>>
    /\ selectedMessage[1] \in DisplayedKeys
    /\ Cardinality(DisplayedKeys) = 2
    /\ Len(Filtered) = 3
    /\ Sum([k \in 1..Len(Chart) |-> Len(Chart[k].entries)]) = 2

-----------------------------------------------------------------------------
(* C22 *)

\* C22: when the level-filtered set is not empty, the k-th interval starts
\* 15 (k - 1) minutes after the range start (the earliest entry less 30
\* minutes), so the intervals are in increasing order without gaps, and the
\* last interval contains the range end (the latest entry plus 30 minutes):
\* lastStart <= end < lastStart + 15 min.
C22_IntervalsTileRange ==
    Filtered # <<>> =>
        LET chart == Chart
        IN  /\ Len(chart) >= 1
            /\ \A k \in 1..Len(chart) :
                  chart[k].timestamp = Earliest(Filtered) - HalfHour + (k - 1) * QuarterHour
            /\ chart[Len(chart)].timestamp <= Latest(Filtered) + HalfHour
            /\ Latest(Filtered) + HalfHour < chart[Len(chart)].timestamp + QuarterHour

\* The entries span a quarter of an hour exactly: the range end is the start of
\* the sixth and last interval.
C22_Witness ==
    /\ Filtered # <<>>
    /\ Latest(Filtered) - Earliest(Filtered) = QuarterHour
    /\ Len(Chart) = 6
    /\ Chart[6].timestamp = Latest(Filtered) + HalfHour

-----------------------------------------------------------------------------
(* C23 *)

Scatter == scatterData(Chart, selectedMessage)

-----------------------------------------------------------------------------
(* C24 *)

\* The occurrences of the selected group in the level-filtered set.
SelectedOccurrences ==
    SelectSeq(Filtered, LAMBDA e : selectedMessage = <<e.message>>)

\* C24: with a group selected, the scatter sequence has one point for each
\* occurrence of the selected group in the level-filtered set, with the
\* occurrence's timestamp, level and file; with no group selected it is empty.
C24_OnePointPerOccurrence ==
    LET scatter == Scatter
        selected == SelectedOccurrences
    IN  IF selectedMessage = <<>> THEN scatter = <<>>
        ELSE /\ Len(scatter) = Len(selected)
             /\ \A e \in EntryUniverse :
                   Cardinality({i \in 1..Len(scatter) :
                                   /\ scatter[i].timestamp = e.timestamp
                                   /\ scatter[i].level = e.level
                                   /\ scatter[i].file = e.file
                                   /\ e.message = selectedMessage[1]})
                       = Occurrences(selected, e)

\* The selected group has two occurrences at the same instant, counted in one
\* interval, and the set holds an entry of another group.
C24_Witness ==
    /\ selectedMessage # <<>>
    /\ Len(Filtered) = 3
    /\ Len(SelectedOccurrences) = 2
    /\ SelectedOccurrences[1] = SelectedOccurrences[2]
    /\ Len(Scatter) = 2

-----------------------------------------------------------------------------
(* C27 *)

\* The header-shaped lines with a token that is no level, after the
\* recognized header at i and before the next recognized header.
UnrecognizedAfter(f, i) ==
    {j \in (i + 1)..Len(f.src) :
        /\ SrcLine(f, j).kind = "header"
        /\ \A m \in (i + 1)..j : ~Recognized(SrcLine(f, m))}

FirstUnrecognizedAfter(f, i) ==
    CHOOSE j \in UnrecognizedAfter(f, i) : \A m \in UnrecognizedAfter(f, i) : j <= m

\* C27: a header with a token that is no level, read while an entry is open,
\* closes the entry with the message it has by then.  The entries are in the
\* order of their headers, so the closed entry precedes every later one; the
\* header adds no entry and no text, and the continuation lines after it, up to
\* the next recognized header, are discarded.
C27_UnrecognizedHeaderCloses ==
    (UploadDone /\ files[1].readable) =>
        LET f  == files[1]
            hs == HeaderPositions(f, 1)
        IN  /\ Len(logData) = Len(hs)
            /\ \A k \in 1..Len(hs) :
                  /\ logData[k].level = SrcLine(f, hs[k]).token
                  /\ (/\ UnrecognizedAfter(f, hs[k]) # {}
                      /\ \A m \in (hs[k] + 1)..(FirstUnrecognizedAfter(f, hs[k]) - 1) :
                            SrcLine(f, m).kind \in {"cont", "blank"})
                     => logData[k].message =
                            SrcLine(f, hs[k]).body
                            \o JoinedContinuations(f, hs[k] + 1,
                                                   FirstUnrecognizedAfter(f, hs[k]) - 1)

\* An Error header, the [INF] header, then a stack trace line: one entry, whose
\* message is the header's remainder.
C27_Witness ==
    /\ UploadDone
    /\ files[1].readable
    /\ Len(files[1].src) = 3
    /\ Recognized(SrcLine(files[1], 1))
    /\ SrcLine(files[1], 2).kind = "header"
    /\ ~Recognized(SrcLine(files[1], 2))
    /\ SrcLine(files[1], 3).kind = "cont"
    /\ Len(logData) = 1
    /\ logData[1].message = SrcLine(files[1], 1).body

-----------------------------------------------------------------------------
(* C25 *)

\* The first line after p that is not blank, 0 when there is none.
NextNonEmpty(f, p) ==
    LET later == {m \in (p + 1)..Len(f.src) : SrcLine(f, m).kind # "blank"}
    IN  IF later = {} THEN 0 ELSE CHOOSE m \in later : \A n \in later : m <= n

\* The entry of the header at line 1 is open when line p is read: the lines
\* between are stack trace lines or blank.
OpenAt(f, p) ==
    /\ Recognized(SrcLine(f, 1))
    /\ \A m \in 2..(p - 1) : SrcLine(f, m).kind \in {"cont", "blank"}

\* The message of the open entry when line p is read.
MessageBefore(f, p) == SrcLine(f, 1).body \o JoinedContinuations(f, 2, p - 1)

\* C25: while an entry is open, a plain line is appended, and the entry stays
\* open, exactly when the next non-empty line exists and is a continuation
\* line, blank lines in between being skipped; otherwise the entry is closed
\* with the message it has and the line is discarded.
C25_LookaheadSkipsBlanks ==
    (UploadDone /\ \A i \in 1..Len(files[1].src) : SrcLine(files[1], i).kind # "header" \/ i = 1) =>
        LET f == files[1]
        IN  \A p \in 2..Len(f.src) :
                (SrcLine(f, p).kind = "plain" /\ OpenAt(f, p)) =>
                    IF NextNonEmpty(f, p) # 0 /\ SrcLine(f, NextNonEmpty(f, p)).kind = "cont"
                    THEN StartsWith(logData[1].message,
                                    MessageBefore(f, p) \o "\n" \o SrcLine(f, p).body)
                    ELSE /\ Len(logData) = 1
                         /\ logData[1].message = MessageBefore(f, p)

-----------------------------------------------------------------------------
(* C26 *)

\* C26: with an entry open, a plain line whose next non-empty line is a header
\* is not appended, whatever the header's message holds: the entry keeps the
\* message it has.
C26_HeaderIsNoContinuation ==
    UploadDone =>
        LET f == files[1]
        IN  \A p \in 2..Len(f.src) :
                (/\ SrcLine(f, p).kind = "plain"
                 /\ OpenAt(f, p)
                 /\ NextNonEmpty(f, p) # 0
                 /\ SrcLine(f, NextNonEmpty(f, p)).kind = "header")
                    => logData[1].message = MessageBefore(f, p)

-----------------------------------------------------------------------------
(* C28 *)

\* The five patterns as the claim states them, on the trimmed line.
ClaimedContinuation(line) ==
    \/ StartsWith(line, "at ")
    \/ Includes(line, "   at ")
    \/ Includes(line, "--- End of")
    \/ Includes(line, " ---> ")
    \/ StartsWith(TrimStart(line), "---")

TrimmedLine(f, i) == Trim(Raw(SrcLine(f, i)))

RECURSIVE JoinedTrimmed(_, _, _)
JoinedTrimmed(f, from, to) ==
    IF from > to THEN ""
    ELSE "\n" \o TrimmedLine(f, from) \o JoinedTrimmed(f, from + 1, to)

\* C28: a non-header line is a continuation line exactly when its trimmed text
\* starts with "at ", contains "   at ", contains "--- End of", contains
\* " ---> " or matches ^\s*---.  So a header followed by such lines only yields
\* the header remainder and all of them, and a header followed by one line of
\* no such pattern yields the header remainder alone.
C28_FiveContinuationPatterns ==
    UploadDone =>
        LET f == files[1]
        IN  /\ (\A i \in 2..Len(f.src) : ClaimedContinuation(TrimmedLine(f, i)))
                => /\ Len(logData) = 1
                   /\ logData[1].message = SrcLine(f, 1).body \o JoinedTrimmed(f, 2, Len(f.src))
            /\ (Len(f.src) = 2 /\ ~ClaimedContinuation(TrimmedLine(f, 2)))
                => /\ Len(logData) = 1
                   /\ logData[1].message = SrcLine(f, 1).body

-----------------------------------------------------------------------------
(* C29 *)

\* C29: a header whose date-time literal denotes no date or time produces no
\* instant: no entry is emitted for it, and no emitted entry has an invalid
\* timestamp.
C29_NoInvalidTimestamp ==
    UploadDone =>
        /\ \A i \in 1..Len(logData) : logData[i].timestamp # InvalidDate
        /\ Len(logData) = Cardinality({i \in 1..Len(files[1].src) :
                                         files[1].src[i] \notin InvalidDateIds})

-----------------------------------------------------------------------------
(* C30 *)

\* C30: the overlap flag of a displayed group whose key is the selected key is
\* false; hasTemporalOverlap is evaluated only for a displayed group other than
\* the selected one; no group has the flag when nothing is selected.
C30_NoOverlapWithItself ==
    LET groups == ArrayFrom(messageGroups(Filtered))
    IN  \A g \in 1..Len(groups) :
            /\ selectedMessage = <<groups[g].message>>
                  => ~hasOverlap(groups, selectedMessage, groups[g])
            /\ OverlapChecked(groups, selectedMessage, groups[g])
                  => /\ selectedGroupData(groups, selectedMessage)[1] # groups[g]
                     /\ selectedGroupData(groups, selectedMessage)[1].message # groups[g].message
            /\ selectedMessage = <<>>
                  => ~hasOverlap(groups, selectedMessage, groups[g])

\* A group is selected, another group of the list overlaps it and has the
\* flag, and the selected group, which shares a quarter of an hour with itself,
\* has not.
C30_Witness ==
    LET groups == ArrayFrom(messageGroups(Filtered))
    IN  /\ selectedMessage # <<>>
        /\ \E g \in 1..Len(groups) : hasOverlap(groups, selectedMessage, groups[g])
        /\ \E g \in 1..Len(groups) :
              /\ selectedMessage = <<groups[g].message>>
              /\ hasTemporalOverlap(groups[g].occurrences, groups[g].occurrences)
              /\ ~hasOverlap(groups, selectedMessage, groups[g])

-----------------------------------------------------------------------------
(* C31 *)

\* Some entry of each of the two groups is counted in the same interval of the
\* timeline of the level-filtered set.
ShareTimelineInterval(group1, group2) ==
    LET starts == ArrayFrom(IntervalStarts(DateRange(Filtered, selectedMessage)))
    IN  \E a \in 1..Len(group1) : \E b \in 1..Len(group2) :
            FindInterval(starts, group1[a]) = FindInterval(starts, group2[b])

\* C31: a displayed group other than the selected one has the overlap flag
\* exactly when the two groups have an entry each in the same 15 minute
\* interval of the timeline.
C31_FlagMatchesTimeline ==
    LET groups   == ArrayFrom(messageGroups(Filtered))
        selected == selectedGroupData(groups, selectedMessage)
    IN  selected # <<>> =>
            \A g \in 1..Len(groups) :
                groups[g].message # selectedMessage[1] =>
                    (hasOverlap(groups, selectedMessage, groups[g])
                        <=> ShareTimelineInterval(groups[g].occurrences,
                                                  selected[1].occurrences))

-----------------------------------------------------------------------------
(* C32 *)

\* The occurrences the modal shows.
Shown == selectedErrorGroup[1].occurrences

\* C32: while the modal is open it shows a group whose occurrences are a
\* permutation of the occurrences of that group in the repository it was
\* opened on, most recent first, and 0 <= index < number of occurrences; a
\* step that opens the modal starts at index 0; 'next' at the last index and
\* 'prev' at index 0 leave the index unchanged; a step that closes the modal
\* leaves index 0 and no group shown.
C32_ModalIndexInRange ==
    /\ [](modalOpen =>
            /\ selectedErrorGroup # <<>>
            /\ Shown # <<>>
            /\ \A i \in 1..(Len(Shown) - 1) : Shown[i].timestamp >= Shown[i + 1].timestamp
            /\ \A i \in 1..Len(Shown) : Shown[i].message = selectedErrorGroup[1].message
            /\ currentErrorIndex >= 0
            /\ currentErrorIndex < Len(Shown))
    /\ [](~modalOpen => selectedErrorGroup = <<>> /\ currentErrorIndex = 0)
    /\ [][(~modalOpen /\ modalOpen') =>
              /\ currentErrorIndex' = 0
              /\ \E g \in 1..Len(messageGroups(Filtered)) :
                    /\ selectedErrorGroup'[1].message = messageGroups(Filtered)[g].message
                    /\ \A e \in OverlapUniverse \cup EntryUniverse :
                          Occurrences(selectedErrorGroup'[1].occurrences, e)
                              = Occurrences(messageGroups(Filtered)[g].occurrences, e)]_vars
    /\ [][(modalOpen /\ modalOpen' /\ currentErrorIndex' # currentErrorIndex) =>
              /\ selectedErrorGroup' = selectedErrorGroup
              /\ currentErrorIndex' \in {currentErrorIndex - 1, currentErrorIndex + 1}]_vars
    /\ [][(modalOpen /\ ~modalOpen') =>
              selectedErrorGroup' = <<>> /\ currentErrorIndex' = 0]_vars

\* The modal shows the second of three occurrences, which are in the
\* repository in another order than most recent first.
C32_Witness ==
    /\ modalOpen
    /\ Len(Shown) = 3
    /\ currentErrorIndex = 1
    /\ Shown[1].timestamp > Shown[3].timestamp
    /\ Shown # SelectSeq(logData, LAMBDA e : e.message = selectedErrorGroup[1].message)

-----------------------------------------------------------------------------
(* C33 *)

\* The positions of the repository whose entry has this level.
PositionsOfLevel(level) == {i \in 1..Len(logData) : logData[i].level = level}

\* The k-th of these positions, in increasing order.
NthPosition(I, k) == CHOOSE i \in I : Cardinality({j \in I : j <= i}) = k

\* C33: the filtered list holds exactly the repository entries of the active
\* level, in repository order, and a step that switches the level leaves the
\* repository as it is and shows the entries of the new level; so the list
\* after ERR -> WRN -> ERR is the list before.
C33_FilterIsPure ==
    /\ [](LET positions == PositionsOfLevel(logType)
              filtered  == Filtered
          IN  /\ Len(filtered) = Cardinality(positions)
              /\ \A k \in 1..Len(filtered) :
                    filtered[k] = logData[NthPosition(positions, k)])
    /\ [][logType' # logType =>
              /\ logData' = logData
              /\ \A level \in {"ERR", "WRN"} :
                    filteredLogData(logData', level) = filteredLogData(logData, level)]_vars

\* The level has been switched to Warning on a repository of three entries,
\* an Error between two different Warnings.
C33_Witness ==
    /\ Len(logData) = 3
    /\ logType = "WRN"
    /\ PositionsOfLevel("WRN") = {1, 3}
    /\ Len(Filtered) = 2
    /\ Filtered[1] # Filtered[2]

-----------------------------------------------------------------------------
(* C34 *)

\* C34: a file yields as many entries as it has header lines with token ERR or
\* WRN, whatever the other lines are: the k-th entry is that of the k-th such
\* header (its level, its remainder at the start of the message, the file's
\* name), and a file that cannot be read yields none.
C34_OneEntryPerRecognizedHeader ==
    UploadDone =>
        LET f  == files[1]
            hs == HeaderPositions(f, 1)
        IN  /\ Len(logData) = Cardinality({i \in 1..Len(f.src) : Recognized(SrcLine(f, i))})
            /\ \A k \in 1..Len(logData) :
                  /\ logData[k].level = SrcLine(f, hs[k]).token
                  /\ StartsWith(logData[k].message, SrcLine(f, hs[k]).body)
                  /\ logData[k].file = f.name

\* An Error header closed by the garbage line, then a Warning header: both
\* entries are emitted.
C34_Witness ==
    /\ UploadDone
    /\ files[1].readable
    /\ Len(files[1].src) = 3
    /\ Recognized(SrcLine(files[1], 1))
    /\ SrcLine(files[1], 2).kind = "plain"
    /\ Recognized(SrcLine(files[1], 3))
    /\ Len(logData) = 2

-----------------------------------------------------------------------------
(* C35 *)

\* The entry of the header at line 1 is closed by line c: stack trace lines
\* only between them, and line c is a header with a token that is no level, or
\* a plain line with a plain line, a header or nothing after it.
ClosedAt(f, c) ==
    /\ \A m \in 2..(c - 1) : SrcLine(f, m).kind = "cont"
    /\ \/ SrcLine(f, c).kind = "header" /\ ~Recognized(SrcLine(f, c))
       \/ /\ SrcLine(f, c).kind = "plain"
          /\ c = Len(f.src) \/ SrcLine(f, c + 1).kind \in {"plain", "header"}

\* C35: the message of an entry that was closed is the message it had when it
\* was closed, whatever lines follow in the file before it is emitted.
C35_ClosedEntryNotExtended ==
    UploadDone =>
        LET f == files[1]
        IN  \A c \in 2..Len(f.src) :
                ClosedAt(f, c) =>
                    logData[1].message = SrcLine(f, 1).body \o JoinedContinuations(f, 2, c - 1)

\* The entry is closed by the garbage line, and a stack trace line follows
\* before the end of the file.
C35_Witness ==
    /\ UploadDone
    /\ Len(files[1].src) = 4
    /\ ClosedAt(files[1], 2)
    /\ SrcLine(files[1], 2).kind = "plain"
    /\ SrcLine(files[1], 4).kind = "cont"
    /\ Len(logData) = 1
    /\ logData[1].message = SrcLine(files[1], 1).body

-----------------------------------------------------------------------------
(* C36 *)

\* File, level and message of each entry.
TextsOf(data) ==
    [k \in 1..Len(data) |-> <<data[k].file, data[k].level, data[k].message>>]

\* For each recognized header of f: the file's name, the header's token, and
\* its remainder with the stack trace lines that follow it in f.
HeaderTexts(f) ==
    LET hs == HeaderPositions(f, 1)
    IN  [k \in 1..Len(hs) |->
            <<f.name, SrcLine(f, hs[k]).token,
              SrcLine(f, hs[k]).body \o JoinedContinuations(f, hs[k] + 1, RunEnd(f, hs[k]))>>]

RECURSIVE BatchTexts(_)
BatchTexts(fs) ==
    IF fs = <<>> THEN <<>> ELSE HeaderTexts(Head(fs)) \o BatchTexts(Tail(fs))

\* C36: every entry has the name of the file that holds its header, and its
\* message holds lines of that file only: an entry open at the end of a file is
\* emitted as it is, and the stack trace lines at the start of the next file
\* are appended to nothing.
C36_NoStateAcrossFiles ==
    UploadDone => TextsOf(logData) = BatchTexts(files)

\* A file that ends in an Error header, then a file that starts with a stack
\* trace line and holds a Warning.
C36_Witness ==
    /\ UploadDone
    /\ Len(files) = 2
    /\ files[1].src = <<1>>
    /\ files[2].src = <<2, 3>>
    /\ Len(logData) = 2
    /\ logData[1].message = SrcLine(files[1], 1).body
    /\ logData[1].file = files[1].name
    /\ logData[2].file = files[2].name

-----------------------------------------------------------------------------
(* C37 *)

\* C37: the selected key is null or the key of a group of the displayed list
\* of the level-filtered repository, so that selectedGroupData finds the group
\* whenever a selection exists.
C37_SelectionIsDisplayed ==
    LET groups == ArrayFrom(messageGroups(Filtered))
    IN  selectedMessage # <<>> =>
            /\ \E g \in 1..Len(groups) : groups[g].message = selectedMessage[1]
            /\ selectedGroupData(groups, selectedMessage) # <<>>
            /\ selectedGroupData(groups, selectedMessage)[1].message = selectedMessage[1]

\* The repository has more groups than are displayed, the displayed list is
\* full, and its last group is selected.
C37_Witness ==
    LET groups == ArrayFrom(messageGroups(Filtered))
    IN  /\ Len(groups) = TopN
        /\ Cardinality({Filtered[i].message : i \in 1..Len(Filtered)}) > TopN
        /\ selectedMessage = <<groups[TopN].message>>

====
